---- MODULE Spec2Model ----
(***************************************************************************)
(* TerraMind backend: the query orchestration engine                       *)
(* (agents/reasoning_engine.py), the session store (services/session.py)   *)
(* and the two language-model entry points (services/llm.py).              *)
(*                                                                         *)
(* Conventions.  A Python Optional is a sequence of length 0 or 1          *)
(* (None == <<>>).  Coordinates are degrees scaled by 10^4 (38.7646 is     *)
(* 387646).  A piece of text is a sequence of parts; a part is a record    *)
(* [lit |-> s] for literal characters or a record named after the data it  *)
(* was formatted from.  A JSON value is a string ("true", "false", "null"  *)
(* stand for the JSON literals).                                           *)
(***************************************************************************)
EXTENDS Integers, Sequences, FiniteSets, TLC

VARIABLES
    store,      \* SessionManager._memory_store : session id -> SessionState
    turn,       \* per task: the locals of one process_query coroutine
    log,        \* per list of the session: every entry ever appended, in order
    xi,         \* extract_intent harness: provider outcome and returned value
    api,        \* one request to the analyze endpoint of main.py
    redis,      \* SessionManager.redis_client and the sessions the server holds
    ret,        \* the last SessionManager call: what was stored, what it returned
    llm,        \* one call of generate_agricultural_response: outcome of the
                \* generation and the LLMResponse returned
    manager     \* ConnectionManager: active_connections and one broadcast call

vars == <<store, turn, log, xi, api, redis, ret, llm, manager>>

----------------------------------------------------------------------------
(* Python values *)

None == <<>>
Some(x) == <<x>>

\* bool(x) for Optional[float]
TruthyNum(o) == o # None /\ o[1] # 0
\* bool(x) for Optional[str]
TruthyStr(o) == o # None /\ o[1] # ""
\* a or b
OrNum(a, b) == IF TruthyNum(a) THEN a ELSE b
OrStr(a, b) == IF TruthyStr(a) THEN a ELSE b

\* str.lower() on the words the model uses
Lower(s) ==
    CASE s = "Permit" -> "permit"
      [] s = "Unknown" -> "unknown"
      [] OTHER -> s

Lit(s) == [lit |-> s]
IsLit(p) == "lit" \in DOMAIN p
\* whitespace characters as seen by str.strip()
IsSpace(p) == IsLit(p) /\ p.lit \in {" ", "\n"}

RECURSIVE LStrip(_)
LStrip(s) == IF s # <<>> /\ IsSpace(Head(s)) THEN LStrip(Tail(s)) ELSE s
RECURSIVE RStrip(_)
RStrip(s) ==
    IF s # <<>> /\ IsSpace(s[Len(s)]) THEN RStrip(SubSeq(s, 1, Len(s) - 1)) ELSE s
\* str.strip()
Strip(s) == RStrip(LStrip(s))
\* str.endswith(c) for a one-character c
EndsWith(s, c) == s # <<>> /\ IsLit(s[Len(s)]) /\ s[Len(s)].lit = c

\* the last n elements: xs[-n:]
LastN(xs, n) == IF Len(xs) > n THEN SubSeq(xs, Len(xs) - n + 1, Len(xs)) ELSE xs
\* the first n elements: xs[:n]
FirstN(xs, n) == IF Len(xs) > n THEN SubSeq(xs, 1, n) ELSE xs

Range(f) == {f[i] : i \in DOMAIN f}
NoDup(s) == \A i, j \in DOMAIN s : s[i] = s[j] => i = j

\* dict.get(k, default)
Get(d, k, default) == IF k \in DOMAIN d THEN d[k] ELSE default
\* a JSON value as the Python object json.loads gives (null is None)
JsonOpt(v) == IF v = "null" THEN None ELSE Some(v)
\* bool(v) of a decoded JSON scalar
JsonTruthy(v) == v \notin {"false", "null", "", "0"}

----------------------------------------------------------------------------
(* services/session.py *)

HistoryLimit == 30
MemoryLimit == 10
ExtractLimit == 3

EmptySession ==
    [crop |-> None, location_label |-> None, lat |-> None, lon |-> None,
     history |-> <<>>, key_facts |-> <<>>, advisor_points |-> <<>>]

\* the store after get_session(id); the session returned is (get_session(st, id))[id]
get_session(st, id) ==
    IF id \in DOMAIN st THEN st
    ELSE [i \in DOMAIN st \cup {id} |-> IF i = id THEN EmptySession ELSE st[i]]

update_context(st, id, crop, lat, lon, label) ==
    LET st0 == get_session(st, id)
        s   == st0[id]
        s1  == IF TruthyStr(crop) /\ Lower(crop[1]) # "unknown"
               THEN [s EXCEPT !.crop = crop] ELSE s
        s2  == IF lat # None /\ lon # None
               THEN [s1 EXCEPT !.lat = lat, !.lon = lon,
                               !.location_label = IF TruthyStr(label) THEN label ELSE @]
               ELSE s1
    IN  [st0 EXCEPT ![id] = s2]

\* the bound applied to the wrong end: the newest entry is dropped
AppendKeepOldest(h, e) == FirstN(Append(h, e), HistoryLimit)
\* list.append followed by the bound of add_message
AppendBounded(h, e) == LastN(Append(h, e), HistoryLimit)

\* only the user's messages are recorded
add_message_user_only(st, id, role, content) ==
    LET st0 == get_session(st, id)
    IN  IF role = "user"
        THEN [st0 EXCEPT ![id].history =
                 AppendBounded(@, [role |-> role, content |-> content])]
        ELSE st0
add_message(st, id, role, content) ==
    LET st0 == get_session(st, id)
    IN  [st0 EXCEPT ![id].history =
            AppendBounded(@, [role |-> role, content |-> content])]

\* str.split(sep): the pieces between the occurrences of the part sep
RECURSIVE Split(_, _)
Split(s, sep) ==
    IF s = <<>> THEN << <<>> >>
    ELSE LET rest == Split(Tail(s), sep)
         IN  IF Head(s) = sep THEN << <<>> >> \o rest
             ELSE << <<Head(s)>> \o Head(rest) >> \o Tail(rest)

\* [p.strip() for p in pieces if p.strip()]
StripNonEmpty(pieces) ==
    LET stripped == [i \in 1..Len(pieces) |-> Strip(pieces[i])]
    IN  SelectSeq(stripped, LAMBDA p : p # <<>>)

\* text.replace("\n", " ")
NewlinesToSpaces(text) ==
    [i \in 1..Len(text) |-> IF text[i] = Lit("\n") THEN Lit(" ") ELSE text[i]]

\* [s.strip() for s in text.replace("\n", " ").split(".") if s.strip()]
Sentences(text) == StripNonEmpty(Split(NewlinesToSpaces(text), Lit(".")))

\* the cue words of _extract_key_facts that occur in the modelled texts
CueWords == {"acres", "orchard", "almond"}
\* any(c in lower for c in cues) or any(ch.isdigit() for ch in s);
\* a part [num |-> n] is a run of digits
HasCue(sentence) ==
    \E i \in 1..Len(sentence) :
        \/ "num" \in DOMAIN sentence[i]
        \/ IsLit(sentence[i]) /\ sentence[i].lit \in CueWords

_extract_key_facts(text) ==
    FirstN(SelectSeq(Sentences(text), HasCue), ExtractLimit)

_extract_advisor_points(text) == FirstN(Sentences(text), ExtractLimit)

\* for x in items: if x not in xs: xs.append(x)
RECURSIVE AppendMissing(_, _)
AppendMissing(xs, items) ==
    IF items = <<>> THEN xs
    ELSE AppendMissing(IF Head(items) \in Range(xs) THEN xs ELSE Append(xs, Head(items)),
                       Tail(items))

update_memory(st, id, user_text, assistant_text, crop, location_label) ==
    LET st0 == get_session(st, id)
        s   == st0[id]
        s1  == IF TruthyStr(crop) /\ Lower(crop[1]) # "unknown"
               THEN [s EXCEPT !.crop = crop] ELSE s
        s2  == IF TruthyStr(location_label)
               THEN [s1 EXCEPT !.location_label = location_label] ELSE s1
        kf  == AppendMissing(s2.key_facts, _extract_key_facts(user_text))
        ap  == AppendMissing(s2.advisor_points, _extract_advisor_points(assistant_text))
    IN  [st0 EXCEPT ![id] = [s2 EXCEPT !.key_facts = LastN(kf, MemoryLimit),
                                       !.advisor_points = LastN(ap, MemoryLimit)]]

----------------------------------------------------------------------------
(* services/llm.py : the outcome of CloudflareLLMService.generate is       *)
(* [exc |-> e] when the call raises, [null |-> TRUE] when the provider's   *)
(* "response" field is null, and [val |-> text] otherwise.                 *)

Exc == [exc |-> "error"]
Val(x) == [val |-> x]
IsException(r) == "exc" \in DOMAIN r

\* one "key": value member of a JSON object
KV(k, v) == [k |-> k, v |-> v]
IsKV(p) == "k" \in DOMAIN p
\* the three-backquote Markdown code fence
Fence == Lit("<fence>")

\* str.find(p) and str.rfind(p), 0 when absent (Python: -1), else the 1-based index
Find(s, p) ==
    IF \E i \in 1..Len(s) : s[i] = p
    THEN CHOOSE i \in 1..Len(s) : s[i] = p /\ \A j \in 1..(i - 1) : s[j] # p
    ELSE 0
RFind(s, p) ==
    IF \E i \in 1..Len(s) : s[i] = p
    THEN CHOOSE i \in 1..Len(s) : s[i] = p /\ \A j \in (i + 1)..Len(s) : s[j] # p
    ELSE 0
StartsWith(s, p) == s # <<>> /\ s[1] = p
\* s[i:j] over 1-based positions i..j
Slice(s, i, j) == IF i > j THEN <<>> ELSE SubSeq(s, i, j)

\* the dict of a sequence of members: a repeated key keeps its last value
DictOf(kvs) ==
    [k \in {kvs[i].k : i \in 1..Len(kvs)} |->
        kvs[CHOOSE i \in 1..Len(kvs) :
                kvs[i].k = k /\ \A j \in (i + 1)..Len(kvs) : kvs[j].k # k].v]

\* json.loads: [dict |-> d], [list |-> TRUE] for an array, or [error |-> TRUE]
\* for json.JSONDecodeError
json_loads(s) ==
    LET t == Strip(s)
        inner == SelectSeq(Slice(t, 2, Len(t) - 1), LAMBDA p : ~IsSpace(p))
    IN  IF /\ Len(t) >= 2 /\ t[1] = Lit("{") /\ t[Len(t)] = Lit("}")
           /\ \A i \in 1..Len(inner) : IsKV(inner[i])
        THEN [dict |-> DictOf(inner)]
        ELSE IF t = <<Lit("[]")>> THEN [list |-> TRUE]
        ELSE [error |-> TRUE]

\* the dict literal returned by the three recovery branches of extract_intent
RecoveryIntent(is_agricultural) ==
    [crop |-> "unknown", question_type |-> "general", optimization_target |-> "none",
     location_address |-> "null", is_agricultural |-> is_agricultural,
     urgency |-> "planning", keywords |-> "[]"]

\* llm.py 335-351: the text taken from a reply that contains code fences
RECURSIVE FirstJsonPart(_, _)
FirstJsonPart(parts, i) ==
    IF i > Len(parts) THEN <<>>
    ELSE LET p0 == Strip(parts[i])
             p1 == IF StartsWith(p0, Lit("json")) THEN Strip(Tail(p0)) ELSE p0
         IN  IF StartsWith(p1, Lit("{")) THEN p1 ELSE FirstJsonPart(parts, i + 2)

Unfence(response) ==
    IF Find(response, Fence) = 0 THEN response
    ELSE LET parts == Split(response, Fence)
             json_part == FirstJsonPart(parts, 2)
             alt == Strip(parts[2])
         IN  IF json_part # <<>> THEN json_part
             ELSE IF StartsWith(alt, Lit("json")) THEN Strip(Tail(alt)) ELSE alt

\* llm.py 354-358: the first outermost JSON object
OutermostObject(response) ==
    LET start_idx == Find(response, Lit("{"))
        end_idx   == RFind(response, Lit("}"))
    IN  IF start_idx # 0 /\ end_idx # 0 /\ end_idx > start_idx
        THEN SubSeq(response, start_idx, end_idx) ELSE response

\* llm.py 362-367: the defaults for missing fields
FillDefaults(data) ==
    LET d1 == IF "is_agricultural" \in DOMAIN data THEN data
              ELSE [k \in DOMAIN data \cup {"is_agricultural"} |->
                      IF k = "is_agricultural"
                      THEN (IF Get(data, "question_type", "null") \notin {"general", "math"}
                            THEN "true" ELSE "false")
                      ELSE data[k]]
    IN  IF "optimization_target" \in DOMAIN d1 THEN d1
        ELSE [k \in DOMAIN d1 \cup {"optimization_target"} |->
                IF k = "optimization_target" THEN "none" ELSE d1[k]]

\* the value extract_intent returns for an outcome of the provider call
extract_intent(outcome) ==
    IF IsException(outcome) THEN RecoveryIntent("true")
    ELSE IF "null" \in DOMAIN outcome THEN RecoveryIntent("true")
    ELSE LET parsed == json_loads(OutermostObject(Unfence(Strip(outcome.val))))
         IN  IF "dict" \in DOMAIN parsed THEN FillDefaults(parsed.dict)
             ELSE IF "error" \in DOMAIN parsed THEN RecoveryIntent("false")
             ELSE RecoveryIntent("true")

\* the delimiters of the generation output
VoiceOpen == Lit("<voice_summary>")
VoiceClose == Lit("</voice_summary>")
FullOpen == Lit("<full_response>")
FullClose == Lit("</full_response>")
SourcesOpen == Lit("<sources>")
SourcesClose == Lit("</sources>")
\* a line feed, and the two characters backslash and n
Newline == Lit("\n")
BackslashN == Lit("\\n")

SummaryBudget == 300
ParsedConfidence == 9
ParseErrorConfidence == 5

\* llm.py 243-252: text[start + len(tag) : end].strip() when both tags are found
Between(text, open, close) ==
    LET a == Find(text, open)
        b == Find(text, close)
    IN  IF a # 0 /\ b # 0 THEN Strip(Slice(text, a + 1, b - 1)) ELSE <<>>

\* llm.py 255-260: the entries of the sources block
ParseSources(text) == StripNonEmpty(Split(Between(text, SourcesOpen, SourcesClose), BackslashN))

\* llm.py 263-266: the raw output without the full-response tags
StripFullTags(text) == SelectSeq(text, LAMBDA p : p # FullOpen /\ p # FullClose)

\* llm.py 210-234: the reply substituted when the generation call raises
FallbackText(crop, weather_context, satellite_context, rag_context) ==
    <<Newline, VoiceOpen, Newline, Lit("I've analyzed the field data for ")>>
    \o (IF TruthyStr(crop) THEN <<Lit(crop[1])>> ELSE <<Lit("your crop")>>)
    \o <<Lit(". Verification of satellite layers aligns with current weather patterns."),
         Newline, VoiceClose, Newline, Newline, FullOpen, Newline,
         Lit("Satellite Telemetry:")>>
    \o satellite_context
    \o <<Lit("Weather Conditions:")>>
    \o weather_context
    \o <<Lit("Research Context:")>>
    \o FirstN(rag_context, SummaryBudget)
    \o (IF Len(rag_context) > SummaryBudget THEN <<Lit("...")>> ELSE <<>>)
    \o <<Lit("*Note: AI reasoning is currently limited due to connectivity*"),
         Newline, FullClose, Newline>>

\* llm.py 236-277: LLMResponse parsed from the reply text
ParseText(response_text) ==
    LET tagged == Between(response_text, FullOpen, FullClose)
        full_response == IF tagged # <<>> THEN tagged ELSE StripFullTags(response_text)
        summary == Between(response_text, VoiceOpen, VoiceClose)
    IN  [text |-> full_response,
         voice_summary |-> IF summary # <<>> THEN summary
                           ELSE FirstN(full_response, SummaryBudget) \o <<Lit("...")>>,
         sources |-> ParseSources(response_text),
         confidence |-> ParsedConfidence]

\* llm.py 236: response_text is one string, built before it is parsed
ParseResponse(response_text) ==
    CHOOSE parsed \in {ParseText(text) : text \in {response_text}} : TRUE

\* generate_agricultural_response for an outcome of the generation call
generate_agricultural_response(outcome, crop, weather_context, satellite_context, rag_context) ==
    ParseResponse(IF IsException(outcome)
                  THEN FallbackText(crop, weather_context, satellite_context, rag_context)
                  ELSE outcome.val)

----------------------------------------------------------------------------
(* agents/reasoning_engine.py : the pure steps of process_query *)

yolo_county_lat == 387646
yolo_county_lon == -1219018

RefusalText ==
    <<Lit("I specialize in agricultural advice for Yolo County only. Please ask me about crops, weather, regulations, pests, or market data"),
      Lit(".")>>
LocationQuestion ==
    <<Lit("I need to know which field or address you are referring to for accurate analysis"),
      Lit(".")>>
CropQuestion ==
    <<Lit("Which crop are you asking about"), Lit("?"), Lit(" "),
      Lit("(Almonds, Walnuts, Tomatoes, etc."), Lit(")")>>

\* "sub in s" on a question type: the types the classifier is asked for, and
\* "regulatory", are single words none of which contains another
Contains(s, sub) == s = sub
\* "permit" in query.lower(), the query being a sequence of words
MentionsPermit(query) ==
    \E i \in 1..Len(query) : IsLit(query[i]) /\ Lower(query[i].lit) = "permit"

\* AgentResponse; chemical_data, timestamp and processing_time_ms are left out
AgentResponse(voice_response, voice_summary, full_response, sources) ==
    [voice_response |-> voice_response, voice_summary |-> voice_summary,
     full_response |-> full_response, sources |-> sources,
     weather_data |-> None, satellite_data |-> None, rag_results |-> None,
     market_data |-> None, crop |-> Some(""), location_address |-> None,
     lat |-> None, lon |-> None, query |-> <<>>]

\* reasoning_engine.py 84-97
RefusalResponse(query) ==
    [AgentResponse(RefusalText, RefusalText, RefusalText, <<>>) EXCEPT
        !.query = query, !.crop = Some("N/A"), !.location_address = Some("N/A"),
        !.lat = Some(0), !.lon = Some(0)]

AskResponseVerbatim(intent, question) ==
    [AgentResponse(question, question, question, <<>>) EXCEPT
        !.crop = JsonOpt(Get(intent, "crop", "unknown"))]
\* reasoning_engine.py 257-270
_create_ask_response(intent, question) ==
    LET q == IF ~EndsWith(Strip(question), "?")
             THEN Strip(question) \o <<Lit("?")>> ELSE question
    IN  [AgentResponse(q, q, q, <<>>) EXCEPT
            !.crop = JsonOpt(Get(intent, "crop", "unknown"))]

\* reasoning_engine.py 80 and 83: intent.get("is_agricultural", True) is truthy
IsAgriculturalWrongKey(intent) == JsonTruthy(Get(intent, "agricultural", "true"))
IsAgricultural(intent) == JsonTruthy(Get(intent, "is_agricultural", "true"))

\* reasoning_engine.py 78: crop or intent.get("crop", "unknown")
ExtractedCrop(crop, intent) == OrStr(crop, JsonOpt(Get(intent, "crop", "unknown")))

\* the session's crop taken whenever the session has one
MergeCropSessionFirst(crop, intent, session) ==
    IF TruthyStr(session.crop) THEN session.crop ELSE ExtractedCrop(crop, intent)
\* reasoning_engine.py 100-102
MergeCrop(crop, intent, session) ==
    LET extracted_crop == ExtractedCrop(crop, intent)
    IN  IF extracted_crop = Some("unknown") /\ TruthyStr(session.crop)
        THEN session.crop ELSE extracted_crop

\* reasoning_engine.py 104-105 and 108: the location before geocoding
PreSeed(lat, lon, intent, session) ==
    [lat |-> OrNum(lat, session.lat), lon |-> OrNum(lon, session.lon),
     display_address |-> OrStr(JsonOpt(Get(intent, "location_address", "null")),
                               session.location_label)]

ApplyGeocodeKeepSeed(loc, geo_result) ==
    IF geo_result # None /\ loc.lat = None
    THEN [lat |-> Some(geo_result[1].lat), lon |-> Some(geo_result[1].lon),
          display_address |-> Some(geo_result[1].label)]
    ELSE loc
\* reasoning_engine.py 111-112: geo_result is None or Some([lat, lon, label])
ApplyGeocode(loc, geo_result) ==
    IF geo_result # None
    THEN [lat |-> Some(geo_result[1].lat), lon |-> Some(geo_result[1].lon),
          display_address |-> Some(geo_result[1].label)]
    ELSE loc

\* the write-back done whether or not the geocoder found the address
GeocodeWriteBackAlways(st, id, loc, geo_result) ==
    update_context(st, id, None, loc.lat, loc.lon, loc.display_address)
\* reasoning_engine.py 114
GeocodeWriteBack(st, id, loc, geo_result) ==
    IF geo_result # None
    THEN update_context(st, id, None, loc.lat, loc.lon, loc.display_address)
    ELSE st

\* reasoning_engine.py 147
IsRegulatory(query, question_type) ==
    MentionsPermit(query) \/ Contains(question_type, "regulatory")

GateOutcomeNoOptimization(query, intent, final_crop, loc) ==
    LET question_type == Get(intent, "question_type", "")
        optimization_target == Get(intent, "optimization_target", "none")
    IN  IF loc.lat = None /\ ~Contains(question_type, "general")
        THEN "ask_location"
        ELSE IF /\ final_crop = Some("unknown")
                /\ ~IsRegulatory(query, question_type)
                /\ ~Contains(question_type, "general")
                /\ optimization_target = "none"
        THEN "ask_crop"
        ELSE "proceed"
\* the gate with the crop rule evaluated before the location rule
GateOutcomeCropFirst(query, intent, final_crop, loc) ==
    LET question_type == Get(intent, "question_type", "")
        optimization_target == Get(intent, "optimization_target", "none")
    IN  IF /\ final_crop = Some("unknown")
           /\ ~IsRegulatory(query, question_type)
           /\ ~Contains(question_type, "general")
           /\ optimization_target = "none"
        THEN "ask_crop"
        ELSE IF /\ loc.lat = None
                /\ optimization_target # "location"
                /\ ~Contains(question_type, "general")
        THEN "ask_location"
        ELSE "proceed"
\* reasoning_engine.py 135-149: "ask_location", "ask_crop" or "proceed"
GateOutcome(query, intent, final_crop, loc) ==
    LET question_type == Get(intent, "question_type", "")
        optimization_target == Get(intent, "optimization_target", "none")
    IN  IF /\ loc.lat = None
           /\ optimization_target # "location"
           /\ ~Contains(question_type, "general")
        THEN "ask_location"
        ELSE IF /\ final_crop = Some("unknown")
                /\ ~IsRegulatory(query, question_type)
                /\ ~Contains(question_type, "general")
                /\ optimization_target = "none"
        THEN "ask_crop"
        ELSE "proceed"

\* reasoning_engine.py 135-141 and 156-163: the regional defaults
DefaultLocation(intent, loc) ==
    IF loc.lat # None THEN loc
    ELSE IF Get(intent, "optimization_target", "none") = "location"
    THEN [lat |-> Some(yolo_county_lat), lon |-> Some(yolo_county_lon),
          display_address |-> Some("Yolo County (General)")]
    ELSE [lat |-> Some(yolo_county_lat), lon |-> Some(yolo_county_lon),
          display_address |-> Some("Yolo County (Center)")]

\* reasoning_engine.py 166
FinalDisplay(display_address, session) ==
    OrStr(OrStr(display_address, session.location_label), Some("Yolo County"))

\* reasoning_engine.py 151-153
CropWriteBack(st, id, final_crop) ==
    IF final_crop # Some("unknown")
    THEN update_context(st, id, final_crop, None, None, None)
    ELSE st

\* the market fetch decided on the question type alone
NeedsMarketByTypeOnly(intent) ==
    LET question_type == Get(intent, "question_type", "")
    IN  Contains(question_type, "market") \/ Contains(question_type, "general")
\* reasoning_engine.py 169-184: the task list, in the order it is built
NeedsMarket(intent) ==
    LET question_type == Get(intent, "question_type", "")
    IN  \/ Contains(question_type, "market")
        \/ Contains(question_type, "general")
        \/ Get(intent, "optimization_target", "none") # "none"

\* reasoning_engine.py 182
NeedsGDD(intent) ==
    LET question_type == Get(intent, "question_type", "")
    IN  \/ Get(intent, "optimization_target", "none") = "time"
        \/ \E k \in {"harvest", "planting", "weather"} : Contains(question_type, k)
BuildTasks(intent) ==
    <<"weather", "satellite", "knowledge">>
    \o (IF NeedsMarket(intent) THEN <<"market">> ELSE <<>>)
    \o (IF NeedsGDD(intent) THEN <<"gdd">> ELSE <<>>)

\* x if not isinstance(x, Exception) else None; a result is [val |-> x] or
\* [exc |-> e]
ValueOrNone(r) == IF "val" \in DOMAIN r THEN Some(r.val) ELSE None

\* the results taken at fixed positions: market fourth, GDD fifth
MapResultsFixed(intent, results) ==
    [weather_data |-> ValueOrNone(results[1]),
     satellite_data |-> ValueOrNone(results[2]),
     rag_results |-> IF "val" \in DOMAIN results[3] THEN results[3].val ELSE <<>>,
     market_data |-> IF NeedsMarket(intent) /\ Len(results) >= 4
                     THEN ValueOrNone(results[4]) ELSE None,
     gdd_data |-> IF NeedsGDD(intent) /\ Len(results) >= 5
                  THEN ValueOrNone(results[5]) ELSE None]
\* reasoning_engine.py 187-205: the results of gather, taken by position
MapResults(intent, results) ==
    LET market_idx == 4
        gdd_idx == IF NeedsMarket(intent) THEN 5 ELSE 4
    IN  [weather_data |-> ValueOrNone(results[1]),
         satellite_data |-> ValueOrNone(results[2]),
         rag_results |-> IF "val" \in DOMAIN results[3] THEN results[3].val ELSE <<>>,
         market_data |-> IF NeedsMarket(intent) /\ Len(results) >= market_idx
                         THEN ValueOrNone(results[market_idx]) ELSE None,
         gdd_data |-> IF NeedsGDD(intent) /\ Len(results) >= gdd_idx
                      THEN ValueOrNone(results[gdd_idx]) ELSE None]

\* sep.join(texts)
RECURSIVE Join(_, _)
Join(texts, sep) ==
    IF texts = <<>> THEN <<>>
    ELSE IF Len(texts) = 1 THEN texts[1]
    ELSE texts[1] \o <<sep>> \o Join(Tail(texts), sep)

WeatherPlaceholder == <<Lit("Weather unavailable.")>>
SatellitePlaceholder == <<Lit("Satellite unavailable.")>>
RagPlaceholder == <<Lit("No research found.")>>
MarketPlaceholder == <<Lit("Market unavailable.")>>

\* reasoning_engine.py 282-305; the part [weather |-> w] is the text formatted from w
_format_weather(w) == IF w = None THEN WeatherPlaceholder ELSE <<[weather |-> w[1]]>>
\* reasoning_engine.py 307-309
_format_satellite(sat) == IF sat = None THEN SatellitePlaceholder ELSE <<[satellite |-> sat[1]]>>
\* reasoning_engine.py 311-313
_format_rag(results) ==
    IF results = <<>> THEN RagPlaceholder
    ELSE Join([i \in 1..Len(results) |->
                 <<Lit("- "), [rag_text |-> results[i].text], Lit(" [Source: ")>>
                 \o results[i].source \o <<Lit("]")>>], BackslashN)
\* reasoning_engine.py 315-317
_format_market(m) ==
    IF m = None \/ ~Get(m[1], "available", FALSE) THEN MarketPlaceholder
    ELSE <<[market |-> m[1]]>>
\* reasoning_engine.py 213-215
WeatherContext(weather_data, gdd_data) ==
    _format_weather(weather_data)
    \o (IF TruthyNum(gdd_data)
        THEN <<Lit("\nGrowing Degree Days (GDD): "), [gdd |-> gdd_data[1]]>> ELSE <<>>)

\* list(S): the sequences that enumerate the set S once each
Orderings(S) == {q \in [1..Cardinality(S) -> S] : Range(q) = S}

\* reasoning_engine.py 235-236: the distinct names of both lists
CombinedSourceSet(llm_sources, rag_results) ==
    Range(llm_sources) \cup {rag_results[i].source : i \in 1..Len(rag_results)}

----------------------------------------------------------------------------
(* process_query as a coroutine: one action per stretch of code between    *)
(* two awaits.  turn[t].calls records the collaborator calls issued and    *)
(* turn[t].path the stages of process_query the turn has entered: Received *)
(* (71-74), Classifying (77-80), Refused (83-97), Resolving (99-149),      *)
(* AwaitingSlot (144, 149), Fetching (151-186), Synthesizing (187-226),    *)
(* Completed (229-255).                                                    *)

Workers == {1, 2}
Pending == [pending |-> TRUE]
NoData == [weather_data |-> None, satellite_data |-> None, rag_results |-> <<>>,
           market_data |-> None, gdd_data |-> None]
NoContext == [weather |-> <<>>, satellite |-> <<>>, rag |-> <<>>, market |-> <<>>]
NoLocation == [lat |-> None, lon |-> None, display_address |-> None]

IdleTurn ==
    [pc |-> "Idle", session_id |-> "", query |-> <<>>, lat |-> None, lon |-> None,
     crop |-> None, entry |-> EmptySession, intent |-> <<>>, final_crop |-> None,
     loc |-> NoLocation, geo_result |-> None, tasks |-> <<>>, results |-> <<>>,
     data |-> NoData, context |-> NoContext, generation |-> Exc, llm_resp |-> <<>>,
     calls |-> {}, path |-> <<>>,
     response |-> AgentResponse(<<>>, <<>>, <<>>, <<>>)]

\* reasoning_engine.py 130-184: from the slot-filling gate to the dispatch of
\* the fetches; gives the coroutine's locals and the store
GateAndDispatch(tr, st) ==
    LET outcome == GateOutcome(tr.query, tr.intent, tr.final_crop, tr.loc)
        st1 == CropWriteBack(st, tr.session_id, tr.final_crop)
        loc1 == DefaultLocation(tr.intent, tr.loc)
        tasks == BuildTasks(tr.intent)
    IN  CASE outcome = "ask_location" ->
               <<[tr EXCEPT !.pc = "AwaitingSlot", !.path = Append(@, "AwaitingSlot"),
                            !.response = _create_ask_response(tr.intent, LocationQuestion)],
                 st>>
          [] outcome = "ask_crop" ->
               <<[tr EXCEPT !.pc = "AwaitingSlot", !.path = Append(@, "AwaitingSlot"),
                            !.response = _create_ask_response(tr.intent, CropQuestion)],
                 st>>
          [] OTHER ->
               <<[tr EXCEPT !.pc = "Fetching", !.path = Append(@, "Fetching"),
                            !.loc = [loc1 EXCEPT !.display_address =
                                        FinalDisplay(@, st1[tr.session_id])],
                            !.tasks = tasks,
                            !.results = [i \in 1..Len(tasks) |-> Pending],
                            !.calls = @ \cup Range(tasks)],
                 st1>>

\* reasoning_engine.py 71-77: session lookup, then the classifier is awaited
Receive(t, request) ==
    /\ turn[t].pc = "Idle"
    /\ store' = get_session(store, request.session_id)
    /\ turn' = [turn EXCEPT ![t] =
          [IdleTurn EXCEPT !.pc = "Classifying", !.session_id = request.session_id,
                           !.query = request.query, !.lat = request.lat,
                           !.lon = request.lon, !.crop = request.crop,
                           !.entry = store'[request.session_id],
                           !.calls = {"extract_intent"},
                           !.path = <<"Received", "Classifying">>]]
    /\ UNCHANGED <<llm, manager, log, xi, api, redis, ret>>

\* reasoning_engine.py 77-108 (and on to 184 when there is no address to geocode)
Classify(t, provider) ==
    /\ turn[t].pc = "Classifying"
    /\ LET tr == turn[t]
           intent == extract_intent(provider)
           session == store[tr.session_id]
           merged == [tr EXCEPT !.intent = intent, !.path = Append(@, "Resolving"),
                                !.final_crop = MergeCrop(tr.crop, intent, session),
                                !.loc = PreSeed(tr.lat, tr.lon, intent, session)]
           next == GateAndDispatch(merged, store)
       IN  IF ~IsAgricultural(intent)
           THEN /\ turn' = [turn EXCEPT ![t] =
                      [tr EXCEPT !.pc = "Refused", !.intent = intent,
                                 !.path = Append(@, "Refused"),
                                 !.response = RefusalResponse(tr.query)]]
                /\ store' = store
           ELSE IF TruthyStr(JsonOpt(Get(intent, "location_address", "null")))
           THEN /\ turn' = [turn EXCEPT ![t] =
                      [merged EXCEPT !.pc = "Resolving", !.calls = @ \cup {"geocode"}]]
                /\ store' = store
           ELSE /\ turn' = [turn EXCEPT ![t] = next[1]]
                /\ store' = next[2]
    /\ UNCHANGED <<llm, manager, log, xi, api, redis, ret>>

\* reasoning_engine.py 110-184: the geocoder has answered
Geocode(t, geo_result) ==
    /\ turn[t].pc = "Resolving"
    /\ LET tr == turn[t]
           loc == ApplyGeocode(tr.loc, geo_result)
           st1 == GeocodeWriteBack(store, tr.session_id, loc, geo_result)
           next == GateAndDispatch([tr EXCEPT !.loc = loc, !.geo_result = geo_result], st1)
       IN  /\ turn' = [turn EXCEPT ![t] = next[1]]
           /\ store' = next[2]
    /\ UNCHANGED <<llm, manager, log, xi, api, redis, ret>>

\* gather returning as soon as one fetch has raised
GatherFailFast(results) ==
    \/ \E i \in 1..Len(results) : IsException(results[i])
    \/ \A i \in 1..Len(results) : results[i] # Pending
\* gather handing over values only, so that a failed fetch is never handed over
GatherValuesOnly(results) ==
    \A i \in 1..Len(results) : results[i] # Pending /\ ~IsException(results[i])
\* reasoning_engine.py 186: asyncio.gather(*tasks, return_exceptions=True)
\* returns when every task has finished, with a value or an exception
GatherDone(results) == \A i \in 1..Len(results) : results[i] # Pending

\* one of the gathered fetches finishes with a value or an exception
FetchReturn(t, i, outcome) ==
    /\ turn[t].pc = "Fetching"
    /\ i \in 1..Len(turn[t].tasks)
    /\ turn[t].results[i] = Pending
    /\ turn' = [turn EXCEPT ![t].results[i] = outcome]
    /\ UNCHANGED <<llm, manager, store, log, xi, api, redis, ret>>

\* reasoning_engine.py 186-226: gather has returned, the generation is awaited
Gathered(t) ==
    /\ turn[t].pc = "Fetching"
    /\ GatherDone(turn[t].results)
    /\ \E tr \in {turn[t]} : \E data \in {MapResults(tr.intent, tr.results)} :
           turn' = [turn EXCEPT ![t] =
              [tr EXCEPT !.pc = "Synthesizing", !.data = data,
                         !.path = Append(@, "Synthesizing"),
                         !.context = [weather |-> WeatherContext(data.weather_data, data.gdd_data),
                                      satellite |-> _format_satellite(data.satellite_data),
                                      rag |-> _format_rag(data.rag_results),
                                      market |-> _format_market(data.market_data)],
                         !.calls = @ \cup {"generate"}]]
    /\ UNCHANGED <<llm, manager, store, log, xi, api, redis, ret>>

\* the two entries appended to the session as the turn read it when it began,
\* written back over whatever the store holds by now
SaveInteractionStale(st, tr, llm_resp) ==
    LET st0 == [st EXCEPT ![tr.session_id] = tr.entry]
        st1 == add_message(st0, tr.session_id, "user", tr.query)
    IN  add_message(st1, tr.session_id, "assistant", llm_resp.voice_summary)
\* reasoning_engine.py 229-230: both entries are appended to the session the
\* store holds now, with no await between the two calls
SaveInteraction(st, tr, llm_resp) ==
    LET st1 == add_message(st, tr.session_id, "user", tr.query)
    IN  add_message(st1, tr.session_id, "assistant", llm_resp.voice_summary)

\* reasoning_engine.py 217-255: the generation call has returned or raised;
\* sources is list(set(...)), whose order is not determined
Generate(t, generation) ==
    /\ turn[t].pc = "Synthesizing"
    /\ \E tr \in {turn[t]} :
       \E llm_resp \in {generate_agricultural_response(generation, tr.final_crop,
                           tr.context.weather, tr.context.satellite, tr.context.rag)} :
       \E st2 \in {SaveInteraction(store, tr, llm_resp)} :
           \E sources \in Orderings(CombinedSourceSet(llm_resp.sources, tr.data.rag_results)) :
           /\ store' = st2
           /\ turn' = [turn EXCEPT ![t] =
                 [tr EXCEPT !.pc = "Completed", !.generation = generation,
                    !.path = Append(@, "Completed"),
                    !.llm_resp = llm_resp,
                    !.response =
                       [voice_response |-> llm_resp.voice_summary,
                        voice_summary |-> llm_resp.voice_summary,
                        full_response |-> llm_resp.text,
                        sources |-> sources,
                        weather_data |-> tr.data.weather_data,
                        satellite_data |-> tr.data.satellite_data,
                        rag_results |-> tr.data.rag_results,
                        market_data |-> tr.data.market_data,
                        crop |-> tr.final_crop,
                        location_address |-> tr.loc.display_address,
                        lat |-> tr.loc.lat, lon |-> tr.loc.lon,
                        query |-> tr.query]]]
    /\ UNCHANGED <<llm, manager, log, xi, api, redis, ret>>

----------------------------------------------------------------------------
(* The environment: requests, sessions left by earlier turns, and the      *)
(* answers of the collaborators.                                           *)

Queries == {<<Lit("treat"), Lit("mites")>>, <<Lit("spray"), Lit("Permit")>>}

Woodland == [lat |-> 386700, lon |-> -1217700, label |-> "Woodland, CA"]
GeoResults == {None, Some(Woodland)}

PriorSummary == <<Lit("Almonds look fine.")>>
PriorHistory ==
    <<[role |-> "user", content |-> <<Lit("treat"), Lit("mites")>>],
      [role |-> "assistant", content |-> PriorSummary]>>
\* a session as earlier turns leave it: with the location of a geocoded
\* address (385000, -1217000, "Davis, CA") or without, and with the crop and
\* the two history entries of a completed turn or without
PriorSession(hasLocation, hasCrop) ==
    [crop |-> IF hasCrop THEN Some("almonds") ELSE None,
     location_label |-> IF hasLocation THEN Some("Davis, CA") ELSE None,
     lat |-> IF hasLocation THEN Some(385000) ELSE None,
     lon |-> IF hasLocation THEN Some(-1217000) ELSE None,
     history |-> IF hasCrop THEN PriorHistory ELSE <<>>,
     key_facts |-> <<>>, advisor_points |-> <<>>]
\* a history that has reached its bound
FullHistory ==
    [i \in 1..HistoryLimit |->
        [role |-> IF i % 2 = 1 THEN "user" ELSE "assistant", content |-> <<[num |-> i]>>]]
PriorStores ==
    {[id \in {"default"} |-> PriorSession(l, c)] : l, c \in BOOLEAN}
    \cup {[id \in {"default"} |-> [PriorSession(TRUE, TRUE) EXCEPT !.history = FullHistory]]}

\* the caller's lat and lon
CallerCoordinates == {<<None, None>>, <<Some(385500), Some(-1217500)>>}
Requests ==
    {[query |-> q, lat |-> c[1], lon |-> c[2], crop |-> k, session_id |-> "default"] :
        q \in Queries, c \in CallerCoordinates, k \in {None, Some("tomatoes")}}

\* the classifier's reply for an intent: a JSON object with the intent's fields
IntentJson(i) ==
    <<Lit("{"), KV("crop", i.crop), KV("question_type", i.question_type),
      KV("optimization_target", i.optimization_target),
      KV("location_address", i.location_address),
      KV("is_agricultural", i.is_agricultural), Lit("}")>>
Intents ==
    [crop : {"unknown", "walnuts"}, question_type : {"general", "pest", "harvest"},
     optimization_target : {"none", "location", "time"},
     location_address : {"null", "Woodland"}, is_agricultural : {"true"}]
    \cup
    [crop : {"unknown"}, question_type : {"general", "math"},
     optimization_target : {"none"},
     location_address : {"null", "Woodland"}, is_agricultural : {"false"}]
ProviderReplies ==
    {Val(IntentJson(i)) : i \in Intents} \cup {Exc, Val(<<Lit("Sorry"), Lit("{")>>)}

UCIPM == <<Lit("UC IPM - Grapes")>>
Almanac == <<Lit("Almond Board")>>
Weather1 == [temperature_c |-> 18]
Satellite1 == [ndvi_current |-> 62]
Market1 == [available |-> TRUE, commodity |-> "Walnuts", trend |-> "down"]
Result1 == [text |-> "Scout weekly", source |-> UCIPM]
Result2 == [text |-> "Irrigate at bloom", source |-> Almanac]

\* a well-formed reply of the generation call citing the given lines
Reply(source_lines) ==
    <<VoiceOpen, Lit("Scout this week."), VoiceClose, Newline,
      FullOpen, Lit("Mites build up in dry heat."), FullClose, Newline, SourcesOpen>>
    \o source_lines \o <<SourcesClose>>

\* answers with every fetch succeeding (the turn specification)
PlainFetch ==
    [weather |-> {Val(Weather1)}, satellite |-> {Val(Satellite1)},
     knowledge |-> {Val(<<Result1>>)}, market |-> {Val(Market1)}, gdd |-> {Val(12505)}]
PlainGeneration == {Exc, Val(Reply(UCIPM))}

\* the analyze endpoint has no request, the session manager has no Redis
\* client (REDIS_URL unset) and has not been called
ApiIdle == [pc |-> "unused", len |-> 0, status |-> 0, invoked |-> FALSE]
NoRedis == [client |-> FALSE, data |-> <<>>]
NoCall ==
    [op |-> "none", id |-> "", existed |-> FALSE, before |-> EmptySession,
     returned |-> EmptySession, n |-> 0]
LlmIdle == [pc |-> "unused", outcome |-> Exc, result |-> <<>>]
NoBroadcast ==
    [pc |-> "idle", size |-> 0, visited |-> {}, current |-> "", changed |-> FALSE,
     disconnected |-> {}, failed |-> {}]
\* accepted: the websockets that have connected so far (each connects once)
NoManager == [active_connections |-> {}, accepted |-> {}, broadcast |-> NoBroadcast]
Quiet == llm = LlmIdle /\ manager = NoManager
Unused == api = ApiIdle /\ redis = NoRedis /\ ret = NoCall /\ Quiet
NoLog == [history |-> <<>>, key_facts |-> <<>>, advisor_points |-> <<>>]
XiIdle == [pc |-> "unused", provider |-> Exc, result |-> <<>>]

Init ==
    /\ store = <<>> \/ store \in PriorStores
    /\ turn = [t \in Workers |-> IdleTurn]
    /\ log = NoLog
    /\ xi = XiIdle
    /\ Unused

Next ==
    \/ \E r \in Requests : Receive(1, r)
    \/ \E p \in ProviderReplies : Classify(1, p)
    \/ \E g \in GeoResults : Geocode(1, g)
    \/ \E i \in 1..Len(turn[1].tasks) :
          \E o \in PlainFetch[turn[1].tasks[i]] : FetchReturn(1, i, o)
    \/ Gathered(1)
    \/ \E g \in PlainGeneration : Generate(1, g)

Spec == Init /\ [][Next]_vars

----------------------------------------------------------------------------
(* Properties of a turn *)

\* the coroutine has left the classifier, and the geocoder if it was called
Resolved(tr) == tr.pc \in {"AwaitingSlot", "Fetching", "Synthesizing", "Completed"}
\* process_query has returned
Returned(tr) == tr.pc \in {"Refused", "AwaitingSlot", "Completed"}
FetchNames == {"weather", "satellite", "knowledge", "market", "gdd"}
SameText(r) == r.voice_response = r.full_response /\ r.voice_summary = r.full_response

\* C1: a query classified with is_agricultural false is answered with the
\* fixed refusal text in all three text fields and with no sources, and the
\* turn calls nothing but the classifier: no fetch, no geocoding, no generation.
C1_RefusalBypass ==
    \A t \in Workers :
        LET tr == turn[t]
        IN  (tr.pc \notin {"Idle", "Classifying"}
             /\ Get(tr.intent, "is_agricultural", "true") = "false")
            => /\ tr.pc = "Refused"
               /\ tr.response.voice_response = RefusalText
               /\ tr.response.voice_summary = RefusalText
               /\ tr.response.full_response = RefusalText
               /\ tr.response.sources = <<>>
               /\ tr.calls = {"extract_intent"}

C1_Witness ==
    /\ turn[1].pc = "Refused"
    /\ Get(turn[1].intent, "is_agricultural", "true") = "false"
    /\ Get(turn[1].intent, "location_address", "null") = "Woodland"

\* the case of C2: agricultural, no crop from the caller, the intent or the
\* session, no coordinate from the caller or the session and no successful
\* geocode, a question type that is not general, not regulatory, no optimization
C2_Case(tr) ==
    /\ Resolved(tr)
    /\ Get(tr.intent, "is_agricultural", "true") = "true"
    /\ tr.crop = None /\ tr.entry.crop = None
    /\ Get(tr.intent, "crop", "unknown") = "unknown"
    /\ tr.lat = None /\ tr.lon = None
    /\ tr.entry.lat = None /\ tr.geo_result = None
    /\ Get(tr.intent, "question_type", "") # "general"
    /\ ~MentionsPermit(tr.query)
    /\ Get(tr.intent, "question_type", "") # "regulatory"
    /\ Get(tr.intent, "optimization_target", "none") = "none"

\* C2: an agricultural query with neither crop nor coordinate resolvable,
\* not general, not regulatory and without optimization target gets a
\* clarifying question: the three text fields hold the same text, it ends in
\* "?", sources is empty, and no fetch and no generation call is issued.
C2_ClarifyingQuestion ==
    \A t \in Workers :
        LET tr == turn[t]
        IN  C2_Case(tr)
            => /\ tr.pc = "AwaitingSlot"
               /\ SameText(tr.response)
               /\ EndsWith(tr.response.full_response, "?")
               /\ tr.response.sources = <<>>
               /\ tr.calls \cap (FetchNames \cup {"generate"}) = {}

C2_Witness ==
    /\ C2_Case(turn[1])
    /\ turn[1].pc = "AwaitingSlot"
    /\ "geocode" \in turn[1].calls

\* C4: when an agricultural turn that resolved a crop other than "unknown",
\* different from the crop the session held, returns (with an answer or with
\* a clarifying question), the session holds the resolved crop.
C4_CropWriteBack ==
    \A t \in Workers :
        LET tr == turn[t]
        IN  (/\ tr.pc \in {"AwaitingSlot", "Completed"}
             /\ TruthyStr(tr.final_crop)
             /\ tr.final_crop # Some("unknown")
             /\ tr.final_crop # tr.entry.crop)
            => store[tr.session_id].crop = tr.final_crop

\* C5: once an address of the intent has been geocoded, the turn's
\* coordinates and address are the geocoded ones, the session holds the
\* geocoded lat, lon and label whatever it held before, and a completed
\* turn reports them.
C5_GeocodingOverride ==
    \A t \in Workers :
        LET tr == turn[t]
        IN  (Resolved(tr) /\ tr.geo_result # None)
            => LET g == tr.geo_result[1]
                   session == store[tr.session_id]
               IN  /\ tr.loc.lat = Some(g.lat) /\ tr.loc.lon = Some(g.lon)
                   /\ session.lat = Some(g.lat) /\ session.lon = Some(g.lon)
                   /\ session.location_label = Some(g.label)
                   /\ tr.pc = "Completed"
                      => /\ tr.response.lat = Some(g.lat)
                         /\ tr.response.lon = Some(g.lon)
                         /\ tr.response.location_address = Some(g.label)

C5_Witness ==
    /\ turn[1].pc = "Completed"
    /\ turn[1].geo_result = Some(Woodland)
    /\ turn[1].entry.lat = Some(385000)
    /\ turn[1].lat = Some(385500)

\* the case of C7: agricultural, no coordinate from the caller, the session
\* or the geocoder, and the optimization target is "location"
C7_Case(tr) ==
    /\ Resolved(tr)
    /\ Get(tr.intent, "is_agricultural", "true") = "true"
    /\ tr.lat = None /\ tr.lon = None
    /\ tr.entry.lat = None /\ tr.geo_result = None
    /\ Get(tr.intent, "optimization_target", "none") = "location"

\* C7: with no coordinate available and optimization target "location" the
\* turn takes the regional center with the "(General)" label, asks no
\* clarifying question and issues the fetches.
C7_LocationOptimization ==
    \A t \in Workers :
        LET tr == turn[t]
        IN  C7_Case(tr)
            => /\ tr.pc # "AwaitingSlot"
               /\ tr.loc.lat = Some(yolo_county_lat)
               /\ tr.loc.lon = Some(yolo_county_lon)
               /\ tr.loc.display_address = Some("Yolo County (General)")
               /\ {"weather", "satellite", "knowledge"} \subseteq tr.calls

C7_Witness ==
    /\ C7_Case(turn[1])
    /\ turn[1].pc = "Completed"
    /\ turn[1].final_crop = Some("unknown")
    /\ Get(turn[1].intent, "question_type", "") = "pest"

----------------------------------------------------------------------------
(* The fetch specification: one request with coordinates and crop, every   *)
(* combination of scheduled fetches, every outcome of each fetch in every  *)
(* completion order, and replies with zero, one or two cited sources.      *)

FetchRequests ==
    {[query |-> <<Lit("treat"), Lit("mites")>>, lat |-> Some(385500),
      lon |-> Some(-1217500), crop |-> Some("walnuts"), session_id |-> "default"]}
FetchIntents ==
    [crop : {"walnuts"}, question_type : {"general", "pest", "harvest"},
     optimization_target : {"none", "time"},
     location_address : {"null"}, is_agricultural : {"true"}]
FetchOutcomes ==
    [weather |-> {Exc, Val(Weather1)}, satellite |-> {Exc, Val(Satellite1)},
     knowledge |-> {Exc, Val(<<>>), Val(<<Result1>>), Val(<<Result1, Result2>>)},
     market |-> {Exc, Val([available |-> FALSE]), Val(Market1)},
     gdd |-> {Exc, Val(0), Val(12505)}]
Generations ==
    {Exc, Val(Reply(<<>>)), Val(Reply(UCIPM)),
     Val(Reply(UCIPM \o <<Newline>> \o Almanac)),
     Val(Reply(UCIPM \o <<BackslashN>> \o Almanac)),
     Val(<<Lit("Scout this week.")>>)}

InitFetch ==
    /\ store = <<>>
    /\ turn = [t \in Workers |-> IdleTurn]
    /\ log = NoLog
    /\ xi = XiIdle
    /\ Unused

NextFetch ==
    \/ \E r \in FetchRequests : Receive(1, r)
    \/ \E i \in FetchIntents : Classify(1, Val(IntentJson(i)))
    \/ \E i \in 1..Len(turn[1].tasks) :
          \E o \in FetchOutcomes[turn[1].tasks[i]] : FetchReturn(1, i, o)
    \/ Gathered(1)
    \/ \E g \in Generations : Generate(1, g)

SpecFetch == InitFetch /\ [][NextFetch]_vars

\* the position of a source in the task list, 0 when it was not scheduled
TaskIndex(tr, name) ==
    IF \E i \in 1..Len(tr.tasks) : tr.tasks[i] = name
    THEN CHOOSE i \in 1..Len(tr.tasks) : tr.tasks[i] = name ELSE 0
Scheduled(tr, name) == TaskIndex(tr, name) # 0
Outcome(tr, name) == tr.results[TaskIndex(tr, name)]
Failed(tr, name) == Scheduled(tr, name) /\ IsException(Outcome(tr, name))
Succeeded(tr, name) == Scheduled(tr, name) /\ ~IsException(Outcome(tr, name))
HasPart(text, part) == \E i \in 1..Len(text) : text[i] = part
HasGddLine(text) == \E i \in 1..Len(text) : "gdd" \in DOMAIN text[i]

\* C3: whatever subset of the fetches raises, the turn completes with a
\* normal response; a failed source has a null or empty payload and the
\* placeholder as its context (a failed GDD fetch leaves no GDD line), and a
\* source that succeeded keeps its payload and contributes its content to
\* the synthesis context.
C3_FailureIsolation ==
    \A t \in Workers :
        LET tr == turn[t]
            r == tr.response
            c == tr.context
        IN  tr.pc = "Completed"
            => /\ Failed(tr, "weather")
                  => r.weather_data = None /\ FirstN(c.weather, 1) = WeatherPlaceholder
               /\ Succeeded(tr, "weather")
                  => /\ r.weather_data = Some(Outcome(tr, "weather").val)
                     /\ HasPart(c.weather, [weather |-> Outcome(tr, "weather").val])
               /\ Failed(tr, "satellite")
                  => r.satellite_data = None /\ c.satellite = SatellitePlaceholder
               /\ Succeeded(tr, "satellite")
                  => /\ r.satellite_data = Some(Outcome(tr, "satellite").val)
                     /\ c.satellite = <<[satellite |-> Outcome(tr, "satellite").val]>>
               /\ Failed(tr, "knowledge")
                  => r.rag_results = <<>> /\ c.rag = RagPlaceholder
               /\ Succeeded(tr, "knowledge")
                  => /\ r.rag_results = Outcome(tr, "knowledge").val
                     /\ \A i \in 1..Len(r.rag_results) :
                           HasPart(c.rag, [rag_text |-> r.rag_results[i].text])
               /\ Failed(tr, "market")
                  => r.market_data = None /\ c.market = MarketPlaceholder
               /\ Succeeded(tr, "market")
                  => /\ r.market_data = Some(Outcome(tr, "market").val)
                     /\ Outcome(tr, "market").val.available
                        => c.market = <<[market |-> Outcome(tr, "market").val]>>
               /\ Failed(tr, "gdd") => ~HasGddLine(c.weather)
               /\ Succeeded(tr, "gdd")
                  => HasPart(c.weather, [gdd |-> Outcome(tr, "gdd").val])

\* the names cited in a reply: the non-empty lines of its sources block
CitedNames(text) ==
    Range(StripNonEmpty(Split(Between(text, SourcesOpen, SourcesClose), Newline)))
RetrievedNames(rag_results) == {rag_results[i].source : i \in 1..Len(rag_results)}

\* C8: the sources of a completed turn are the union of the names cited in
\* the generation output and the source names of the knowledge results, each
\* name once.
C8_SourcesUnion ==
    \A t \in Workers :
        LET tr == turn[t]
            cited == IF IsException(tr.generation) THEN {}
                     ELSE CitedNames(tr.generation.val)
        IN  tr.pc = "Completed"
            => /\ Range(tr.response.sources) = cited \cup RetrievedNames(tr.data.rag_results)
               /\ NoDup(tr.response.sources)

----------------------------------------------------------------------------
(* The session specification: any interleaving of add_message and          *)
(* update_memory on one session, new or left by an earlier turn.  log      *)
(* records, per list, every entry the calls appended.                      *)

MaxMessages == 32
MaxFacts == 13

SessionIds == {"default", "field-7"}

\* the n-th message, user and assistant alternating
Message(n) == [role |-> IF n % 2 = 1 THEN "user" ELSE "assistant", content |-> <<[num |-> n]>>]
\* a sentence with a digit run and a cue word, and one without either
FactSentence(k) == <<Lit("We farm "), [num |-> k], Lit("acres"), Lit(".")>>
Greeting == <<Lit("Hello there"), Lit(".")>>
AdviceSentence(k) == <<Lit("Irrigate block "), [num |-> k], Lit("."), Lit("\n")>>
\* the texts of one exchange after k facts and p points were appended:
\* nothing to keep; one new fact and one new point; four new facts behind a
\* greeting and four new points; the first fact again with a new one; the
\* first point again with a new one
Exchanges(k, p) ==
    {[user |-> Greeting, assistant |-> <<>>, crop |-> Some("almonds")],
     [user |-> FactSentence(k + 1), assistant |-> AdviceSentence(p + 1), crop |-> None],
     [user |-> Greeting \o FactSentence(k + 1) \o FactSentence(k + 2)
                  \o FactSentence(k + 3) \o FactSentence(k + 4),
      assistant |-> AdviceSentence(p + 1) \o AdviceSentence(p + 2)
                  \o AdviceSentence(p + 3) \o AdviceSentence(p + 4), crop |-> None],
     [user |-> FactSentence(1) \o FactSentence(k + 1), assistant |-> <<>>,
      crop |-> Some("Unknown")],
     [user |-> Greeting, assistant |-> AdviceSentence(1) \o AdviceSentence(p + 1),
      crop |-> None]}

\* the entries a call appended to a list that was xs before and is ys after
\* the appends (before the bound is applied)
Appended(xs, ys) == SubSeq(ys, Len(xs) + 1, Len(ys))

SessionLog(st, id) ==
    LET s == (get_session(st, id))[id]
    IN  [id |-> id, history |-> s.history, key_facts |-> s.key_facts,
         advisor_points |-> s.advisor_points]

AddMessage(id, role, content) ==
    /\ Len(log.history) < MaxMessages
    /\ store' = add_message(store, id, role, content)
    /\ log' = [log EXCEPT !.history = Append(@, [role |-> role, content |-> content])]
    /\ UNCHANGED <<llm, manager, turn, xi, api, redis, ret>>

UpdateMemory(id, user_text, assistant_text, crop, location_label) ==
    LET s == (get_session(store, id))[id]
        kf == AppendMissing(s.key_facts, _extract_key_facts(user_text))
        ap == AppendMissing(s.advisor_points, _extract_advisor_points(assistant_text))
    IN  /\ Len(log.key_facts) < MaxFacts
        /\ Len(log.advisor_points) < MaxFacts
        /\ store' = update_memory(store, id, user_text, assistant_text, crop, location_label)
        /\ log' = [log EXCEPT !.key_facts = @ \o Appended(s.key_facts, kf),
                              !.advisor_points = @ \o Appended(s.advisor_points, ap)]
        /\ UNCHANGED <<llm, manager, turn, xi, api, redis, ret>>

InitSession ==
    /\ store = <<>> \/ store = [id \in {"default"} |-> PriorSession(TRUE, TRUE)]
    /\ \E id \in SessionIds : log = SessionLog(store, id)
    /\ turn = [t \in Workers |-> IdleTurn]
    /\ xi = XiIdle
    /\ Unused

NextSession ==
    \/ LET m == Message(Len(log.history) + 1)
       IN  AddMessage(log.id, m.role, m.content)
    \/ \E x \in Exchanges(Len(log.key_facts), Len(log.advisor_points)) :
          UpdateMemory(log.id, x.user, x.assistant, x.crop, None)

SpecSession == InitSession /\ [][NextSession]_vars

Min(a, b) == IF a < b THEN a ELSE b
\* xs is the last min(Len(all), limit) entries of all, in the same order
MostRecent(xs, all, limit) ==
    /\ Len(xs) = Min(Len(all), limit)
    /\ \A i \in 1..Len(xs) : xs[i] = all[Len(all) - Len(xs) + i]

\* C6: after any sequence of add_message and update_memory calls a session
\* holds at most 30 history entries, 10 key facts and 10 advisor points, and
\* each list is exactly the most recently appended entries in the order they
\* were appended (the entries dropped are the oldest).
C6_BoundedCollections ==
    /\ \A id \in DOMAIN store :
          /\ Len(store[id].history) <= HistoryLimit
          /\ Len(store[id].key_facts) <= MemoryLimit
          /\ Len(store[id].advisor_points) <= MemoryLimit
    /\ "id" \in DOMAIN log /\ log.id \in DOMAIN store
       => /\ MostRecent(store[log.id].history, log.history, HistoryLimit)
          /\ MostRecent(store[log.id].key_facts, log.key_facts, MemoryLimit)
          /\ MostRecent(store[log.id].advisor_points, log.advisor_points, MemoryLimit)

\* every list has lost entries to its bound
C6_Witness ==
    /\ "id" \in DOMAIN log /\ log.id \in DOMAIN store
    /\ Len(log.history) > HistoryLimit /\ Len(store[log.id].history) = HistoryLimit
    /\ Len(log.key_facts) > MemoryLimit /\ Len(store[log.id].key_facts) = MemoryLimit
    /\ Len(log.advisor_points) > MemoryLimit
    /\ Len(store[log.id].advisor_points) = MemoryLimit

----------------------------------------------------------------------------
(* The resolution specification: worker 1 runs a turn up to the end of     *)
(* context resolution; worker 2 then runs the same request, with the same  *)
(* classifier reply and the same geocoder answer, against the store that   *)
(* worker 1 left.                                                          *)

SameRequest(tr) ==
    [query |-> tr.query, lat |-> tr.lat, lon |-> tr.lon, crop |-> tr.crop,
     session_id |-> tr.session_id]

NextResolve ==
    \/ \E r \in Requests : Receive(1, r)
    \/ \E p \in ProviderReplies : Classify(1, p)
    \/ \E g \in GeoResults : Geocode(1, g)
    \/ turn[1].pc \in {"AwaitingSlot", "Fetching"} /\ Receive(2, SameRequest(turn[1]))
    \/ \E p \in ProviderReplies : extract_intent(p) = turn[1].intent /\ Classify(2, p)
    \/ Geocode(2, turn[1].geo_result)

SpecResolve == Init /\ [][NextResolve]_vars

\* C9: a second run of context resolution with the same intent, the same
\* caller overrides and the same geocoder answer, against the session the
\* first run left, resolves the same final crop, coordinates, display address
\* and gate outcome, and leaves the session as it found it.
C9_ResolutionIdempotent ==
    (Resolved(turn[1]) /\ Resolved(turn[2]))
    => /\ turn[2].final_crop = turn[1].final_crop
       /\ turn[2].loc = turn[1].loc
       /\ turn[2].pc = turn[1].pc
       /\ turn[2].response = turn[1].response
       /\ turn[2].tasks = turn[1].tasks
       /\ store[turn[2].session_id] = turn[2].entry

\* both runs are through, the first having geocoded an address over a
\* session that already had another location and crop, and changed it
C9_Witness ==
    /\ Resolved(turn[1]) /\ Resolved(turn[2])
    /\ turn[1].geo_result # None
    /\ turn[1].entry.lat # None /\ turn[1].entry.crop = Some("almonds")
    /\ turn[1].final_crop = Some("walnuts")
    /\ turn[2].entry # turn[1].entry

----------------------------------------------------------------------------
(* The classifier specification: extract_intent applied to every outcome   *)
(* of the provider call: an exception, a null response, or a reply of up   *)
(* to MaxRespLen tokens.                                                   *)

MaxRespLen == 4

ReplyTokens ==
    {Fence, Lit("json"), Lit("{"), Lit("}"), Lit("Sure"), Lit("[]"),
     KV("question_type", "math"), KV("is_agricultural", "false")}
RECURSIVE SeqsUpTo(_, _)
SeqsUpTo(S, n) ==
    IF n = 0 THEN {<<>>}
    ELSE LET shorter == SeqsUpTo(S, n - 1)
         IN  shorter \cup {Append(q, x) : q \in shorter, x \in S}
ProviderOutcomes ==
    {Exc, [null |-> TRUE]} \cup {Val(r) : r \in SeqsUpTo(ReplyTokens, MaxRespLen)}

ExtractIntent ==
    /\ xi.pc = "calling"
    /\ xi' = [xi EXCEPT !.pc = "returned", !.result = extract_intent(xi.provider)]
    /\ UNCHANGED <<llm, manager, store, turn, log, api, redis, ret>>

InitIntent ==
    /\ store = <<>>
    /\ turn = [t \in Workers |-> IdleTurn]
    /\ log = NoLog
    /\ \E o \in ProviderOutcomes : xi = [pc |-> "calling", provider |-> o, result |-> <<>>]
    /\ Unused

NextIntent == ExtractIntent

SpecIntent == InitIntent /\ [][NextIntent]_vars

\* the reply, cleaned as extract_intent cleans it, is a JSON object
ParsesAsObject(outcome) ==
    /\ "val" \in DOMAIN outcome
    /\ "dict" \in DOMAIN json_loads(OutermostObject(Unfence(Strip(outcome.val))))

\* C10: extract_intent always returns an intent, and whenever it could not
\* take the intent from the provider's reply (the call raised, the reply is
\* null, the reply does not parse as JSON, or cleaning it failed otherwise)
\* the intent returned is the safe default with crop "unknown",
\* question_type "general", optimization_target "none" and is_agricultural
\* true.
C10_SafeDefault ==
    xi.pc = "returned"
    => /\ "is_agricultural" \in DOMAIN xi.result
       /\ ~ParsesAsObject(xi.provider)
          => /\ xi.result.crop = "unknown"
             /\ xi.result.question_type = "general"
             /\ xi.result.optimization_target = "none"
             /\ xi.result.is_agricultural = "true"

----------------------------------------------------------------------------
(* Further properties of the fetch specification *)

\* the parts of sub occur in text as one contiguous run
Embeds(text, sub) ==
    \E i \in 0..(Len(text) - Len(sub)) : SubSeq(text, i + 1, i + Len(sub)) = sub

\* C11: when the generation call raises, the turn still gets an answer: the
\* fallback text built from the weather, satellite and knowledge context
\* strings already fetched, and its confidence is lower than the confidence
\* of a normally generated answer.
C11_FallbackAnswer ==
    \A t \in Workers :
        LET tr == turn[t]
        IN  (tr.pc = "Completed" /\ IsException(tr.generation))
            => /\ Embeds(tr.llm_resp.text, tr.context.weather)
               /\ Embeds(tr.llm_resp.text, tr.context.satellite)
               /\ Embeds(tr.llm_resp.text, tr.context.rag)
               /\ tr.llm_resp.confidence < ParsedConfidence

----------------------------------------------------------------------------
(* Further properties of the turn specification *)

HasAddress(intent) == TruthyStr(JsonOpt(Get(intent, "location_address", "null")))
\* the geocoder was asked and found nothing
GeocodeFailed(tr) ==
    /\ "geocode" \in tr.calls /\ tr.pc # "Resolving"
    /\ HasAddress(tr.intent) /\ tr.geo_result = None
\* the coordinate the turn starts from: the caller's, else the session's
SeedLat(tr) == IF tr.lat # None THEN tr.lat ELSE tr.entry.lat
SeedLon(tr) == IF tr.lon # None THEN tr.lon ELSE tr.entry.lon

----------------------------------------------------------------------------
(* main.py : the analyze endpoint.  api.len is the length of the request's *)
(* query, api.status the HTTP status of the reply, api.invoked whether     *)
(* process_query was called.                                               *)

QueryLimit == 500
MaxQueryLen == 520

\* the classes the handler's "except Exception" clause catches
ExceptionClasses == {"Exception", "HTTPException", "RuntimeError"}
HTTPException(status_code) == [class |-> "HTTPException", status_code |-> status_code]
\* main.py 261-262: except Exception as e: raise HTTPException(status_code=500)
ExceptHandler(raised) ==
    IF raised.class \in ExceptionClasses THEN HTTPException(500) ELSE raised

\* main.py 198-201: the length check, inside the try block
Validate ==
    /\ api.pc = "Received"
    /\ api' = IF api.len > QueryLimit
              THEN [api EXCEPT !.pc = "Responded",
                               !.status = ExceptHandler(HTTPException(400)).status_code]
              ELSE [api EXCEPT !.pc = "Processing", !.invoked = TRUE]
    /\ UNCHANGED <<llm, manager, store, turn, log, xi, redis, ret>>

\* main.py 203-262: process_query (or a broadcast) returns or raises
Respond(raises) ==
    /\ api.pc = "Processing"
    /\ api' = [api EXCEPT !.pc = "Responded",
                  !.status = IF raises
                             THEN ExceptHandler([class |-> "RuntimeError"]).status_code
                             ELSE 200]
    /\ UNCHANGED <<llm, manager, store, turn, log, xi, redis, ret>>

InitAnalyze ==
    /\ store = <<>>
    /\ turn = [t \in Workers |-> IdleTurn]
    /\ log = NoLog
    /\ xi = XiIdle
    /\ redis = NoRedis /\ ret = NoCall
    /\ \E n \in 0..MaxQueryLen :
          api = [pc |-> "Received", len |-> n, status |-> 0, invoked |-> FALSE]
    /\ Quiet

NextAnalyze ==
    \/ Validate
    \/ \E raises \in BOOLEAN : Respond(raises)

SpecAnalyze == InitAnalyze /\ [][NextAnalyze]_vars

\* C13: a request whose query is longer than 500 characters is answered with
\* HTTP 400, a client error and not a server error, and process_query is
\* not invoked for it.
C13_QueryTooLong ==
    (api.pc = "Responded" /\ api.len > QueryLimit)
    => api.status = 400 /\ ~api.invoked

----------------------------------------------------------------------------
(* services/session.py with and without a Redis client.  redis.data is the *)
(* server's key space (session id -> JSON document); a read or a write of  *)
(* it can fail, which the client reports by raising.                       *)

MaxCalls == 4

\* SessionState.to_json and from_json: the document holds the fields
to_json(session) == [json |-> session]
from_json(doc) == doc.json

Put(f, k, v) == [x \in DOMAIN f \cup {k} |-> IF x = k THEN v ELSE f[x]]
Remove(f, k) == [x \in DOMAIN f \ {k} |-> f[x]]

\* session.py 92-104: _save_session; with a client a failed setex is only printed
_save_session(st, rd, session, id, write_ok) ==
    IF rd.client
    THEN [store |-> st,
          redis |-> IF write_ok THEN [rd EXCEPT !.data = Put(@, id, to_json(session))] ELSE rd]
    ELSE [store |-> Put(st, id, session), redis |-> rd]

\* session.py 64-89: get_session; gives the session returned and both stores
GetSessionResult(st, rd, id, read_ok, write_ok) ==
    IF rd.client
    THEN LET found == read_ok /\ id \in DOMAIN rd.data
             session == IF found THEN from_json(rd.data[id]) ELSE EmptySession
             saved == _save_session(st, rd, session, id, write_ok)
         IN  [session |-> session, store |-> saved.store, redis |-> saved.redis]
    ELSE [session |-> (get_session(st, id))[id], store |-> get_session(st, id), redis |-> rd]

\* the sessions currently kept, whichever store is in use
Kept == IF redis.client THEN [id \in DOMAIN redis.data |-> from_json(redis.data[id])] ELSE store

CallRecord(op, id, session) ==
    [op |-> op, id |-> id, existed |-> id \in DOMAIN Kept,
     before |-> IF id \in DOMAIN Kept THEN Kept[id] ELSE EmptySession,
     returned |-> session, n |-> ret.n + 1]
CallsLeft == ret.n < MaxCalls

GetSession(id, read_ok, write_ok) ==
    LET got == GetSessionResult(store, redis, id, read_ok, write_ok)
    IN  /\ CallsLeft
        /\ store' = got.store /\ redis' = got.redis
        /\ ret' = CallRecord("get_session", id, got.session)
        /\ UNCHANGED <<llm, manager, turn, log, xi, api>>

\* session.py 106-125: update_context on the session get_session returns
UpdateContext(id, crop, loc, read_ok, write_ok) ==
    LET got == GetSessionResult(store, redis, id, read_ok, write_ok)
        session == (update_context([x \in {id} |-> got.session], id, crop,
                                   loc.lat, loc.lon, loc.display_address))[id]
        saved == _save_session(got.store, got.redis, session, id, write_ok)
    IN  /\ CallsLeft
        /\ store' = saved.store /\ redis' = saved.redis
        /\ ret' = CallRecord("update_context", id, got.session)
        /\ UNCHANGED <<llm, manager, turn, log, xi, api>>

\* session.py 127-138: add_message on the session get_session returns
AddMessageTo(id, role, content, read_ok, write_ok) ==
    LET got == GetSessionResult(store, redis, id, read_ok, write_ok)
        session == (add_message([x \in {id} |-> got.session], id, role, content))[id]
        saved == _save_session(got.store, got.redis, session, id, write_ok)
    IN  /\ CallsLeft
        /\ store' = saved.store /\ redis' = saved.redis
        /\ ret' = CallRecord("add_message", id, got.session)
        /\ UNCHANGED <<llm, manager, turn, log, xi, api>>

\* session.py 207-216: clear_session; redis delete is not guarded, so a
\* failed delete raises out of clear_session before anything else is done
ClearSession(id, delete_ok, read_ok, write_ok) ==
    LET rd1 == IF redis.client THEN [redis EXCEPT !.data = Remove(@, id)] ELSE redis
        st1 == IF id \in DOMAIN store THEN Remove(store, id) ELSE store
        got == GetSessionResult(st1, rd1, id, read_ok, write_ok)
    IN  /\ CallsLeft
        /\ IF redis.client /\ ~delete_ok
           THEN /\ UNCHANGED <<llm, manager, store, redis>>
                /\ ret' = CallRecord("clear_session raised", id, EmptySession)
           ELSE /\ store' = got.store /\ redis' = got.redis
                /\ ret' = CallRecord("clear_session", id, got.session)
        /\ UNCHANGED <<llm, manager, turn, log, xi, api>>

Davis == [lat |-> Some(385000), lon |-> Some(-1217000), display_address |-> Some("Davis, CA")]

InitStore ==
    /\ store = <<>>
    /\ turn = [t \in Workers |-> IdleTurn]
    /\ log = NoLog
    /\ xi = XiIdle
    /\ api = ApiIdle
    /\ redis \in {[client |-> c, data |-> <<>>] : c \in BOOLEAN}
    /\ ret = NoCall
    /\ Quiet

NextStore ==
    \E id \in SessionIds, read_ok, write_ok \in BOOLEAN :
        \/ GetSession(id, read_ok, write_ok)
        \/ \E crop \in {None, Some("almonds")}, loc \in {NoLocation, Davis} :
              UpdateContext(id, crop, loc, read_ok, write_ok)
        \/ AddMessageTo(id, "user", <<Lit("treat"), Lit("mites")>>, read_ok, write_ok)
        \/ \E delete_ok \in BOOLEAN : ClearSession(id, delete_ok, read_ok, write_ok)

SpecStore == InitStore /\ [][NextStore]_vars

\* C14: get_session creates an empty session for an unseen id and returns
\* the stored state for an existing one, with the in-memory store and with
\* Redis, also when a read of the store fails; update_context and add_message
\* work on the stored state; only clear_session empties a session, and after
\* it the session kept for the id is empty.
C14_SessionLifecycle ==
    /\ ret.op \in {"get_session", "update_context", "add_message"}
       => IF ret.existed THEN ret.returned = ret.before
          ELSE ret.returned = EmptySession
    /\ (ret.op = "get_session" /\ ret.existed /\ ret.id \in DOMAIN Kept)
       => Kept[ret.id] = ret.before
    /\ ret.op = "clear_session"
       => /\ ret.returned = EmptySession
          /\ ret.id \in DOMAIN Kept => Kept[ret.id] = EmptySession

\* C15: a turn that reaches Completed has appended exactly two entries to
\* the session history, the user's query and then the assistant's voice
\* summary; a turn that ends in the refusal or in a clarifying question has
\* appended nothing.
C15_HistoryAppend ==
    \A t \in Workers :
        LET tr == turn[t]
            history == store[tr.session_id].history
            exchange == <<[role |-> "user", content |-> tr.query],
                          [role |-> "assistant", content |-> tr.response.voice_summary]>>
        IN  /\ tr.pc = "Completed"
               => MostRecent(history, tr.entry.history \o exchange, HistoryLimit)
            /\ tr.pc \in {"Refused", "AwaitingSlot"} => history = tr.entry.history

\* a completed turn on a session whose history was already at its bound
C15_Witness ==
    /\ turn[1].pc = "Completed"
    /\ turn[1].entry.history = FullHistory
    /\ Len(store["default"].history) = HistoryLimit
    /\ store["default"].history[HistoryLimit].role = "assistant"
    /\ store["default"].history[HistoryLimit].content = turn[1].response.voice_summary

\* C16: the final crop of a turn is the caller's crop if the caller gave one,
\* else the intent's crop if it is not "unknown", else the session's crop if
\* the session has one, else "unknown"; a completed turn reports it.
C16_CropPrecedence ==
    \A t \in Workers :
        LET tr == turn[t]
            intent_crop == Get(tr.intent, "crop", "unknown")
            expected == IF tr.crop # None THEN tr.crop
                        ELSE IF intent_crop # "unknown" THEN Some(intent_crop)
                        ELSE IF tr.entry.crop # None THEN tr.entry.crop
                        ELSE Some("unknown")
        IN  /\ tr.pc \in {"Resolving", "AwaitingSlot", "Fetching", "Synthesizing", "Completed"}
               => tr.final_crop = expected
            /\ tr.pc = "Completed" => tr.response.crop = expected

\* the caller, the intent and the session name three different crops
C16_Witness ==
    /\ turn[1].pc = "Completed"
    /\ turn[1].crop = Some("tomatoes")
    /\ Get(turn[1].intent, "crop", "unknown") = "walnuts"
    /\ turn[1].entry.crop = Some("almonds")
    /\ turn[1].response.crop = Some("tomatoes")

----------------------------------------------------------------------------
(* The caller specification: turns whose caller always supplies lat and    *)
(* lon, among them the equator, the prime meridian and the corners of the  *)
(* allowed ranges.                                                         *)

CallerPairs ==
    {<<Some(385500), Some(-1217500)>>, <<Some(0), Some(-1217500)>>,
     <<Some(385500), Some(0)>>, <<Some(0), Some(0)>>,
     <<Some(-900000), Some(1800000)>>, <<Some(900000), Some(-1800000)>>}
CallerRequests ==
    {[query |-> <<Lit("treat"), Lit("mites")>>, lat |-> c[1], lon |-> c[2],
      crop |-> None, session_id |-> "default"] : c \in CallerPairs}

NextCaller ==
    \/ \E r \in CallerRequests : Receive(1, r)
    \/ \E p \in ProviderReplies : Classify(1, p)
    \/ \E g \in GeoResults : Geocode(1, g)
    \/ \E i \in 1..Len(turn[1].tasks) :
          \E o \in PlainFetch[turn[1].tasks[i]] : FetchReturn(1, i, o)
    \/ Gathered(1)
    \/ \E g \in PlainGeneration : Generate(1, g)

SpecCaller == Init /\ [][NextCaller]_vars

\* C17: when the caller supplies lat and lon, anywhere in [-90, 90] and
\* [-180, 180], and no address is geocoded in the turn, the turn's
\* coordinates are exactly the caller's pair, whatever the session holds.
C17_CallerCoordinates ==
    \A t \in Workers :
        LET tr == turn[t]
        IN  (/\ tr.pc \in {"AwaitingSlot", "Fetching", "Synthesizing", "Completed"}
             /\ tr.lat # None /\ tr.lon # None
             /\ tr.geo_result = None)
            => /\ tr.loc.lat = tr.lat /\ tr.loc.lon = tr.lon
               /\ tr.pc = "Completed"
                  => tr.response.lat = tr.lat /\ tr.response.lon = tr.lon

\* C18: the generation call of a turn is issued only when every fetch of the
\* turn has finished with a value or a failure, and a fetch that fails
\* leaves the fetches still pending as they are: a step changes the result
\* of one fetch at most, and a finished fetch keeps its result.
C18_WaitForAll ==
    /\ [](\A t \in Workers :
            "generate" \in turn[t].calls
            => /\ Len(turn[t].results) = Len(turn[t].tasks)
               /\ \A i \in 1..Len(turn[t].results) : turn[t].results[i] # Pending)
    /\ [][\A t \in Workers :
            (turn[t].pc = "Fetching" /\ turn'[t].pc = "Fetching")
            => \A i, j \in 1..Len(turn[t].results) :
                  (turn'[t].results[i] # turn[t].results[i] /\ i # j)
                  => /\ turn[t].results[i] = Pending
                     /\ turn'[t].results[j] = turn[t].results[j]]_vars

\* the generation is under way after a fetch failed first, another failed
\* last and the three between them succeeded
C18_Witness ==
    /\ turn[1].pc = "Synthesizing"
    /\ Len(turn[1].tasks) = 5
    /\ IsException(turn[1].results[1]) /\ IsException(turn[1].results[5])
    /\ \A i \in 2..4 : "val" \in DOMAIN turn[1].results[i]


----------------------------------------------------------------------------
(* The stages of a turn, and its termination *)

\* every collaborator call returns or fails: each fetch ends with a value
\* or an exception
FailingFetch ==
    [weather |-> {Exc, Val(Weather1)}, satellite |-> {Exc, Val(Satellite1)},
     knowledge |-> {Exc, Val(<<Result1>>)}, market |-> {Exc, Val(Market1)},
     gdd |-> {Exc, Val(12505)}]

TurnRequests ==
    {[query |-> <<Lit("treat"), Lit("mites")>>, lat |-> c[1], lon |-> c[2],
      crop |-> None, session_id |-> "default"] : c \in CallerCoordinates}
TurnIntents ==
    [crop : {"unknown", "walnuts"}, question_type : {"pest"},
     optimization_target : {"none", "location"},
     location_address : {"null", "Woodland"}, is_agricultural : {"true", "false"}]
TurnReplies == {Val(IntentJson(i)) : i \in TurnIntents} \cup {Exc}

\* a collaborator call of turn t (classifier, geocoder, a fetch, gather,
\* generation) returns or fails and process_query runs on to its next await
Resume(t) ==
    \/ \E p \in TurnReplies : Classify(t, p)
    \/ \E g \in GeoResults : Geocode(t, g)
    \/ \E i \in 1..Len(turn[t].tasks) :
          \E o \in FailingFetch[turn[t].tasks[i]] : FetchReturn(t, i, o)
    \/ Gathered(t)
    \/ \E g \in PlainGeneration : Generate(t, g)

NextTurn ==
    \/ \E r \in TurnRequests : Receive(1, r)
    \/ Resume(1)

\* the event loop resumes a coroutine whose awaited call has finished, so a
\* turn that can be resumed is not postponed forever
InitTurn ==
    /\ store = <<>>
    /\ turn = [t \in Workers |-> IdleTurn]
    /\ log = NoLog
    /\ xi = XiIdle
    /\ Unused
SpecTurn == InitTurn /\ [][NextTurn]_vars /\ WF_vars(Resume(1))

Terminal == {"Refused", "AwaitingSlot", "Completed"}
\* the stage order as the specification draws it: refusal follows resolution
DrawnEdges ==
    {<<"Received", "Classifying">>, <<"Classifying", "Resolving">>,
     <<"Resolving", "Refused">>, <<"Resolving", "AwaitingSlot">>,
     <<"Resolving", "Fetching">>, <<"Fetching", "Synthesizing">>,
     <<"Synthesizing", "Completed">>}
\* the stage order with refusal decided on the classification alone
StageEdges ==
    {<<"Received", "Classifying">>, <<"Classifying", "Refused">>,
     <<"Classifying", "Resolving">>, <<"Resolving", "AwaitingSlot">>,
     <<"Resolving", "Fetching">>, <<"Fetching", "Synthesizing">>,
     <<"Synthesizing", "Completed">>}
Follows(path, edges) ==
    /\ path # <<>> => path[1] = "Received"
    /\ \A i \in 1..(Len(path) - 1) : <<path[i], path[i + 1]>> \in edges
Started(t) == turn[t].pc # "Idle"
Ended(t) == turn[t].pc \in Terminal
\* the stage a turn is in is the last stage of its path
InStage(t) == Started(t) => turn[t].pc = turn[t].path[Len(turn[t].path)]

----------------------------------------------------------------------------
(* Two turns on one session id, interleaved at their awaits *)

DavisCA == [lat |-> 385000, lon |-> -1217000, label |-> "Davis, CA"]
RaceGeoResults == {None, Some(Woodland), Some(DavisCA)}
\* the request of each of the two turns; the queries differ
RaceRequests(t) ==
    IF t = 1
    THEN {[query |-> <<Lit("treat"), Lit("mites")>>, lat |-> Some(385500),
           lon |-> Some(-1217500), crop |-> None, session_id |-> "default"]}
    ELSE {[query |-> <<Lit("when"), Lit("to"), Lit("irrigate")>>, lat |-> None,
           lon |-> None, crop |-> k, session_id |-> "default"] :
             k \in {None, Some("tomatoes")}}
RaceIntents ==
    [crop : {"unknown", "walnuts"}, question_type : {"pest"},
     optimization_target : {"none"},
     location_address : {"null", "Woodland"}, is_agricultural : {"true"}]
\* the generation of each turn; the replies differ
RaceReply ==
    <<VoiceOpen, Lit("Irrigate at dawn."), VoiceClose, Newline,
      FullOpen, Lit("Soil is dry."), FullClose, Newline, SourcesOpen, SourcesClose>>
RaceGenerations(t) == IF t = 1 THEN {Exc, Val(Reply(UCIPM))} ELSE {Val(RaceReply)}
RaceStores ==
    {[id \in {"default"} |-> PriorSession(TRUE, TRUE)],
     [id \in {"default"} |-> [PriorSession(TRUE, TRUE) EXCEPT !.history = FullHistory]]}

InitRace ==
    /\ store = <<>> \/ store \in RaceStores
    /\ turn = [t \in Workers |-> IdleTurn]
    /\ log = NoLog
    /\ xi = XiIdle
    /\ Unused

\* the event loop runs one turn at a time up to its next await
NextRace ==
    \E t \in Workers :
        \/ \E r \in RaceRequests(t) : Receive(t, r)
        \/ \E i \in RaceIntents : Classify(t, Val(IntentJson(i)))
        \/ \E g \in RaceGeoResults : Geocode(t, g)
        \/ \E i \in 1..Len(turn[t].tasks) :
              \E o \in PlainFetch[turn[t].tasks[i]] : FetchReturn(t, i, o)
        \/ Gathered(t)
        \/ \E g \in RaceGenerations(t) : Generate(t, g)

SpecRace == InitRace /\ [][NextRace]_vars

BothCompleted == \A t \in Workers : turn[t].pc = "Completed"
\* the two history entries of a completed turn
Exchange(t) ==
    <<[role |-> "user", content |-> turn[t].query],
      [role |-> "assistant", content |-> turn[t].llm_resp.voice_summary]>>
\* the crop and the location a turn wrote to the session, if it wrote one
WroteCrop(t) == turn[t].final_crop # Some("unknown")
WroteLocation(t) == turn[t].geo_result # None
LocationOf(s) == <<s.lat, s.lon, s.location_label>>
GeocodedLocation(t) ==
    LET g == turn[t].geo_result[1] IN <<Some(g.lat), Some(g.lon), Some(g.label)>>

\* C20: when two turns on the same session id run interleaved at their
\* awaits and both reach Completed, the history holds the entries of both
\* turns after the earlier history (the most recent 30), each turn's user
\* entry is immediately followed by its own assistant entry, and the
\* session's crop and location are those written by one of the two turns
\* (or the earlier ones when no turn wrote)
C20_NoLostUpdate ==
    BothCompleted =>
        LET s == store["default"]
            h == s.history
        IN  /\ \E h0 \in {turn[t].entry.history : t \in Workers} :
               \E a, b \in Workers :
                  /\ a # b
                  /\ MostRecent(h, h0 \o Exchange(a) \o Exchange(b), HistoryLimit)
            /\ \A t \in Workers :
                  \E i \in 1..(Len(h) - 1) :
                     h[i] = Exchange(t)[1] /\ h[i + 1] = Exchange(t)[2]
            /\ IF \E t \in Workers : WroteCrop(t)
               THEN \E t \in Workers : WroteCrop(t) /\ s.crop = turn[t].final_crop
               ELSE \A t \in Workers : s.crop = turn[t].entry.crop
            /\ IF \E t \in Workers : WroteLocation(t)
               THEN \E t \in Workers :
                       WroteLocation(t) /\ LocationOf(s) = GeocodedLocation(t)
               ELSE \A t \in Workers : LocationOf(s) = LocationOf(turn[t].entry)

\* both turns began before either wrote its entries, both completed, and
\* they wrote different crops and geocoded different places
C20_Witness ==
    /\ BothCompleted
    /\ turn[1].entry.history = turn[2].entry.history
    /\ WroteCrop(1) /\ WroteCrop(2) /\ turn[1].final_crop # turn[2].final_crop
    /\ WroteLocation(1) /\ WroteLocation(2)
    /\ GeocodedLocation(1) # GeocodedLocation(2)
    /\ Len(store["default"].history) = HistoryLimit


----------------------------------------------------------------------------
(* Memory extraction after a turn *)

\* the session as update_memory (session.py 165-191) leaves it for the
\* texts of turn t
Remembered(t) ==
    (update_memory(store, turn[t].session_id, turn[t].query,
                   turn[t].llm_resp.voice_summary, None, None))[turn[t].session_id]

\* C21: after every completed turn the session's key_facts and
\* advisor_points reflect the facts extracted from the turn's user text and
\* assistant reply, as update_memory applied with the turn's texts leaves them
C21_MemoryExtraction ==
    turn[1].pc = "Completed" =>
        /\ store[turn[1].session_id].key_facts = Remembered(1).key_facts
        /\ store[turn[1].session_id].advisor_points = Remembered(1).advisor_points


----------------------------------------------------------------------------
(* Write-back of the caller's coordinates *)

\* the turn went on with the coordinates its caller supplied
ProceedsWithCallerCoordinates(tr) ==
    /\ tr.pc = "Completed"
    /\ tr.lat # None /\ tr.lon # None
    /\ tr.loc.lat = tr.lat /\ tr.loc.lon = tr.lon

\* C22: in every agricultural turn that proceeds with coordinates supplied
\* by the caller that differ from the session's stored lat/lon, the session's
\* stored lat/lon equal the caller's coordinates when the turn returns
C22_LocationWriteBack ==
    LET tr == turn[1]
    IN  (/\ ProceedsWithCallerCoordinates(tr)
         /\ <<tr.entry.lat, tr.entry.lon>> # <<tr.lat, tr.lon>>)
        => /\ store[tr.session_id].lat = tr.lat
           /\ store[tr.session_id].lon = tr.lon


----------------------------------------------------------------------------
(* The display address of a completed turn *)

\* the labels of the regional default (reasoning_engine.py 138, 163, 166)
RegionalLabels ==
    {Some("Yolo County (General)"), Some("Yolo County (Center)"), Some("Yolo County")}

DisplayPrecedence(tr) ==
    IF tr.geo_result # None
    THEN tr.response.location_address = Some(tr.geo_result[1].label)
    ELSE IF TruthyStr(tr.entry.location_label)
    THEN tr.response.location_address = tr.entry.location_label
    ELSE tr.response.location_address \in RegionalLabels

\* C23: the location_address of a completed turn is the geocoder's label when
\* an address was geocoded in this turn; otherwise the session's earlier
\* label when it has one, also when an address was extracted and its
\* geocoding failed; otherwise a regional-default label
C23_DisplayAddress == turn[1].pc = "Completed" => DisplayPrecedence(turn[1])


----------------------------------------------------------------------------
(* The fetches a turn issues *)

\* the question types and optimization targets the classifier is asked for
\* (llm.py 297-298), and "regulatory" (reasoning_engine.py 147)
QuestionTypes ==
    {"pest", "disease", "irrigation", "weather", "harvest", "planting", "market",
     "chemical", "math", "general", "regulatory"}
OptimizationTargets == {"none", "time", "location", "resource"}
FanoutIntents ==
    [crop : {"walnuts"}, question_type : QuestionTypes,
     optimization_target : OptimizationTargets,
     location_address : {"null"}, is_agricultural : {"true"}]

NextFanout ==
    \/ \E r \in FetchRequests : Receive(1, r)
    \/ \E i \in FanoutIntents : Classify(1, Val(IntentJson(i)))
    \/ \E i \in 1..Len(turn[1].tasks) :
          \E o \in PlainFetch[turn[1].tasks[i]] : FetchReturn(1, i, o)
    \/ Gathered(1)
    \/ \E g \in PlainGeneration : Generate(1, g)

SpecFanout == InitFetch /\ [][NextFanout]_vars

ReachedFetching(tr) == tr.pc \in {"Fetching", "Synthesizing", "Completed"}
MarketWanted(question_type, optimization_target) ==
    question_type \in {"market", "general"} \/ optimization_target # "none"
GddWanted(question_type, optimization_target) ==
    optimization_target = "time" \/ question_type \in {"harvest", "planting", "weather"}

\* C24: every turn that reaches Fetching issues the weather, satellite and
\* knowledge fetches; the market fetch if and only if the question type is
\* market or general or the optimization target is not "none"; the
\* growing-degree-day fetch if and only if the optimization target is "time"
\* or the question type is harvest, planting or weather; and no other fetch,
\* each once
C24_ConditionalFanout ==
    \A t \in Workers :
        ReachedFetching(turn[t]) =>
            LET tr == turn[t]
                qt == tr.intent.question_type
                opt == tr.intent.optimization_target
            IN  /\ tr.calls \cap FetchNames =
                      {"weather", "satellite", "knowledge"}
                      \cup (IF MarketWanted(qt, opt) THEN {"market"} ELSE {})
                      \cup (IF GddWanted(qt, opt) THEN {"gdd"} ELSE {})
                /\ Range(tr.tasks) = tr.calls \cap FetchNames
                /\ NoDup(tr.tasks)

\* a pest question asking where to grow: the market fetch is issued for the
\* optimization target alone, and no growing-degree-day fetch
C24_Witness ==
    /\ turn[1].pc = "Fetching"
    /\ turn[1].intent.question_type = "pest"
    /\ turn[1].intent.optimization_target = "location"
    /\ turn[1].tasks = <<"weather", "satellite", "knowledge", "market">>


----------------------------------------------------------------------------
(* Correlation of the fetch results *)

\* the value a source contributes: that of its own fetch when the fetch was
\* scheduled and succeeded, none otherwise
OwnValue(tr, name) ==
    IF Succeeded(tr, name) THEN Some(Outcome(tr, name).val) ELSE None
OwnResults(tr) ==
    IF Succeeded(tr, "knowledge") THEN Outcome(tr, "knowledge").val ELSE <<>>

\* C25: whichever of the optional fetches are scheduled (neither, market
\* only, GDD only, both) and in whatever order the fetches complete, the
\* weather, satellite, knowledge, market and GDD values used for synthesis
\* and returned in the response are each the outcome of that source's own
\* fetch; the GDD result is never taken for the market result nor the reverse
C25_PositionalCorrelation ==
    \A t \in Workers :
        LET tr == turn[t]
            d == tr.data
            c == tr.context
            r == tr.response
        IN  /\ tr.pc \in {"Synthesizing", "Completed"}
               => /\ d.weather_data = OwnValue(tr, "weather")
                  /\ d.satellite_data = OwnValue(tr, "satellite")
                  /\ d.rag_results = OwnResults(tr)
                  /\ d.market_data = OwnValue(tr, "market")
                  /\ d.gdd_data = OwnValue(tr, "gdd")
                  /\ c.weather = WeatherContext(OwnValue(tr, "weather"), OwnValue(tr, "gdd"))
                  /\ c.satellite = _format_satellite(OwnValue(tr, "satellite"))
                  /\ c.rag = _format_rag(OwnResults(tr))
                  /\ c.market = _format_market(OwnValue(tr, "market"))
            /\ tr.pc = "Completed"
               => /\ r.weather_data = OwnValue(tr, "weather")
                  /\ r.satellite_data = OwnValue(tr, "satellite")
                  /\ r.rag_results = OwnResults(tr)
                  /\ r.market_data = OwnValue(tr, "market")

\* a completed turn with the GDD fetch scheduled and the market fetch not:
\* the fourth result is the GDD value and there is no market value
C25_Witness ==
    /\ turn[1].pc = "Completed"
    /\ turn[1].tasks = <<"weather", "satellite", "knowledge", "gdd">>
    /\ turn[1].results[4] = Val(12505)
    /\ turn[1].data.gdd_data = Some(12505)
    /\ turn[1].data.market_data = None
    /\ turn[1].response.market_data = None


----------------------------------------------------------------------------
(* The slot-filling gate *)

GateIntents ==
    [crop : {"unknown", "walnuts"}, question_type : {"general", "pest", "regulatory"},
     optimization_target : {"none", "location", "time"},
     location_address : {"null", "Woodland"}, is_agricultural : {"true"}]

\* a turn up to the decision of the gate
NextGate ==
    \/ \E r \in Requests : Receive(1, r)
    \/ \E i \in GateIntents : Classify(1, Val(IntentJson(i)))
    \/ \E g \in GeoResults : Geocode(1, g)

SpecGate == Init /\ [][NextGate]_vars

\* no latitude is resolved: none geocoded, none from the caller or the session
NoCoordinate(tr) ==
    /\ tr.geo_result = None
    /\ (PreSeed(tr.lat, tr.lon, tr.intent, tr.entry)).lat = None
RegulatoryQuery(tr) ==
    \/ \E i \in 1..Len(tr.query) : tr.query[i] \in {Lit("permit"), Lit("Permit")}
    \/ tr.intent.question_type = "regulatory"
AsksFor(tr, question) ==
    tr.pc = "AwaitingSlot" /\ tr.response = _create_ask_response(tr.intent, question)

\* C26: for every agricultural turn the rules of the gate are evaluated in
\* order: the turn asks for the location when no coordinate is resolved, the
\* question type is not general and the optimization target is not
\* "location" (also when the crop is missing too); otherwise it asks for the
\* crop exactly when the final crop is "unknown", the query is not
\* regulatory, the question type is not general and the optimization target
\* is "none"; otherwise it proceeds to the fetches
C26_GateDecision ==
    \A t \in Workers :
        LET tr == turn[t]
            qt == tr.intent.question_type
            opt == tr.intent.optimization_target
            askLocation == NoCoordinate(tr) /\ qt # "general" /\ opt # "location"
            askCrop == /\ tr.final_crop = Some("unknown")
                       /\ ~RegulatoryQuery(tr)
                       /\ qt # "general"
                       /\ opt = "none"
        IN  Resolved(tr) =>
               IF askLocation THEN AsksFor(tr, LocationQuestion)
               ELSE IF askCrop THEN AsksFor(tr, CropQuestion)
               ELSE tr.pc = "Fetching"

\* a turn with neither location nor crop is asked for the location
C26_Witness ==
    /\ AsksFor(turn[1], LocationQuestion)
    /\ NoCoordinate(turn[1])
    /\ turn[1].final_crop = Some("unknown")
    /\ ~RegulatoryQuery(turn[1])
    /\ turn[1].intent.optimization_target = "none"


----------------------------------------------------------------------------
(* The tag parser of generate_agricultural_response, over generation       *)
(* outputs built from delimiter tokens and text                            *)

MaxOutLen == 4
Delimiters == {VoiceOpen, VoiceClose, FullOpen, FullClose, SourcesOpen, SourcesClose}
OutputTokens == Delimiters \cup {Lit("Scout weekly"), Lit(" ")}
GenerationOutcomes == {Exc} \cup {Val(r) : r \in SeqsUpTo(OutputTokens, MaxOutLen)}

\* llm.py 186-277: the generation call has returned or raised and the reply
\* is parsed
GenerateResponse ==
    /\ llm.pc = "calling"
    /\ llm' = [llm EXCEPT !.pc = "returned",
                 !.result = <<generate_agricultural_response(llm.outcome, Some("walnuts"),
                                 WeatherPlaceholder, SatellitePlaceholder, RagPlaceholder)>>]
    /\ UNCHANGED <<store, turn, log, xi, api, redis, ret, manager>>

InitParse ==
    /\ store = <<>>
    /\ turn = [t \in Workers |-> IdleTurn]
    /\ log = NoLog
    /\ xi = XiIdle
    /\ api = ApiIdle /\ redis = NoRedis /\ ret = NoCall
    /\ manager = NoManager
    /\ \E o \in GenerationOutcomes : llm = [pc |-> "calling", outcome |-> o, result |-> <<>>]

NextParse == GenerateResponse

SpecParse == InitParse /\ [][NextParse]_vars

\* the output holds a full-response open tag with a close tag after it
CompleteFullPair(text) ==
    \E i, j \in 1..Len(text) : i < j /\ text[i] = FullOpen /\ text[j] = FullClose
WithoutDelimiters(text) == SelectSeq(text, LAMBDA p : p \notin Delimiters)
Parsed == llm.pc = "returned" /\ "val" \in DOMAIN llm.outcome

\* C27: when the generation output has no complete full-response delimiter
\* pair, the returned full text is the entire raw output with every stray
\* delimiter token removed (summary, full-response and sources tags), so it
\* never contains a delimiter token
C27_FullResponseFallback ==
    (Parsed /\ ~CompleteFullPair(llm.outcome.val))
    => /\ llm.result[1].text = WithoutDelimiters(llm.outcome.val)
       /\ \A i \in 1..Len(llm.result[1].text) : llm.result[1].text[i] \notin Delimiters

----------------------------------------------------------------------------
(* The sources block *)

MaxBlockLen == 4
BlockTokens == {Lit("UC IPM"), Lit("Almond Board"), Newline, BackslashN, Lit(" ")}
Answer == <<VoiceOpen, Lit("Scout this week."), VoiceClose>>
\* outputs with a sources block, and one without
BlockOutcomes ==
    {Val(Answer)}
    \cup {Val(Answer \o <<SourcesOpen>> \o b \o <<SourcesClose>>) :
             b \in SeqsUpTo(BlockTokens, MaxBlockLen)}

InitSources ==
    /\ store = <<>>
    /\ turn = [t \in Workers |-> IdleTurn]
    /\ log = NoLog
    /\ xi = XiIdle
    /\ api = ApiIdle /\ redis = NoRedis /\ ret = NoCall
    /\ manager = NoManager
    /\ \E o \in BlockOutcomes : llm = [pc |-> "calling", outcome |-> o, result |-> <<>>]

SpecSources == InitSources /\ [][NextParse]_vars

\* the non-empty lines of the sources block, stripped, in order
BlockLines(text) ==
    StripNonEmpty(Split(Between(text, SourcesOpen, SourcesClose), Newline))

\* C28: every non-empty line of the sources block of the generation output
\* becomes exactly one entry of the parsed sources, whitespace-stripped and
\* in the order of the lines; an absent or empty block yields the empty list
C28_SourcesBlock ==
    Parsed => llm.result[1].sources = BlockLines(llm.outcome.val)


----------------------------------------------------------------------------
(* Requests with one coordinate only: lat and lon are separate optional    *)
(* fields of AnalyzeRequest (schemas.py 18-19)                             *)

OneSidedPairs ==
    {<<Some(385500), None>>, <<None, Some(-1217500)>>, <<None, None>>}
PairRequests ==
    {[query |-> <<Lit("treat"), Lit("mites")>>, lat |-> c[1], lon |-> c[2],
      crop |-> None, session_id |-> "default"] : c \in CallerPairs \cup OneSidedPairs}

NextPair ==
    \/ \E r \in PairRequests : Receive(1, r)
    \/ \E p \in ProviderReplies : Classify(1, p)
    \/ \E g \in GeoResults : Geocode(1, g)
    \/ \E i \in 1..Len(turn[1].tasks) :
          \E o \in PlainFetch[turn[1].tasks[i]] : FetchReturn(1, i, o)
    \/ Gathered(1)
    \/ \E g \in PlainGeneration : Generate(1, g)

SpecPair == Init /\ [][NextPair]_vars

\* the pairs a turn may take its coordinates from
Origins(tr) ==
    {<<tr.lat, tr.lon>>, <<tr.entry.lat, tr.entry.lon>>,
     <<Some(yolo_county_lat), Some(yolo_county_lon)>>}
    \cup (IF tr.geo_result # None
          THEN {<<Some(tr.geo_result[1].lat), Some(tr.geo_result[1].lon)>>} ELSE {})

\* C29: whenever a turn issues its data fetches, the lat and lon it uses are
\* both non-null and both come from the same origin (the caller, the
\* session, the geocoding result or the regional center), for every request
\* the request shape allows, also one with only one of lat/lon or with a
\* coordinate equal to 0
C29_PairConsistency ==
    \A t \in Workers :
        LET tr == turn[t]
        IN  ReachedFetching(tr)
            => /\ tr.loc.lat # None /\ tr.loc.lon # None
               /\ <<tr.loc.lat, tr.loc.lon>> \in Origins(tr)


----------------------------------------------------------------------------
(* main.py : ConnectionManager.  One broadcast call, interleaved at its    *)
(* awaits with websockets connecting and disconnecting.                    *)

WebSockets == {"ws1", "ws2", "ws3", "ws4"}
Broadcasting == manager.broadcast.pc = "sending"

\* main.py 64-66 (called at 513): accept has returned, the websocket is added
Connect(ws) ==
    /\ ws \notin manager.accepted
    /\ manager' = [manager EXCEPT !.active_connections = @ \cup {ws},
                                  !.accepted = @ \cup {ws},
                                  !.broadcast.changed = @ \/ Broadcasting]
    /\ UNCHANGED <<store, turn, log, xi, api, redis, ret, llm>>

\* main.py 68-69 (called at 558 when the client has gone)
Disconnect(ws) ==
    /\ ws \in manager.active_connections
    /\ manager' = [manager EXCEPT !.active_connections = @ \ {ws},
                                  !.broadcast.changed = @ \/ Broadcasting]
    /\ UNCHANGED <<store, turn, log, xi, api, redis, ret, llm>>

\* the next step of "for connection in self.active_connections" (main.py 74)
\* for a broadcast b whose last send is over.  The set iterator raises
\* RuntimeError when the size of the set differs from the size it had when
\* the loop began; when the set was changed and has its old size again, which
\* of the remaining members it still yields is not determined.  After the
\* loop line 81 removes the connections whose send raised.
IterNext(b, active) ==
    LET rest == active \ b.visited
        done == [pc |-> "returned", active |-> active \ b.disconnected, current |-> ""]
    IN  IF Cardinality(active) # b.size
        THEN {[pc |-> "raised", active |-> active, current |-> ""]}
        ELSE {[pc |-> "sending", active |-> active, current |-> c] : c \in rest}
             \cup (IF rest = {} \/ b.changed THEN {done} ELSE {})

\* main.py 71-76: broadcast is called and reaches its first send, or returns
\* at once when there is no connection
Broadcast ==
    /\ manager.broadcast.pc = "idle"
    /\ LET b == [NoBroadcast EXCEPT !.size = Cardinality(manager.active_connections)]
       IN  \E n \in IterNext(b, manager.active_connections) :
              manager' = [manager EXCEPT
                            !.active_connections = n.active,
                            !.broadcast = [b EXCEPT !.pc = n.pc, !.current = n.current,
                                             !.visited = IF n.pc = "sending"
                                                         THEN {n.current} ELSE {}]]
    /\ UNCHANGED <<store, turn, log, xi, api, redis, ret, llm>>

\* main.py 75-81: send_json returns or raises; a raise is caught and the
\* connection noted, then the loop goes on
SendReturn(ok) ==
    /\ manager.broadcast.pc = "sending"
    /\ LET b0 == manager.broadcast
           b == IF ok THEN b0
                ELSE [b0 EXCEPT !.disconnected = @ \cup {b0.current},
                                !.failed = @ \cup {b0.current}]
       IN  \E n \in IterNext(b, manager.active_connections) :
              manager' = [manager EXCEPT
                            !.active_connections = n.active,
                            !.broadcast = [b EXCEPT !.pc = n.pc, !.current = n.current,
                                             !.visited = IF n.pc = "sending"
                                                         THEN @ \cup {n.current} ELSE @]]
    /\ UNCHANGED <<store, turn, log, xi, api, redis, ret, llm>>

InitBroadcast ==
    /\ store = <<>>
    /\ turn = [t \in Workers |-> IdleTurn]
    /\ log = NoLog
    /\ xi = XiIdle
    /\ Unused

NextBroadcast ==
    \/ \E ws \in WebSockets : Connect(ws)
    \/ \E ws \in WebSockets : Disconnect(ws)
    \/ Broadcast
    \/ \E ok \in BOOLEAN : SendReturn(ok)

SpecBroadcast == InitBroadcast /\ [][NextBroadcast]_vars

\* C30: broadcast, interleaved at its sends with connect and disconnect
\* calls of other connections, never raises, and when it has returned
\* active_connections holds no connection whose send failed during it
C30_BroadcastUnderConcurrency ==
    /\ manager.broadcast.pc # "raised"
    /\ manager.broadcast.pc = "returned"
          => manager.active_connections \cap manager.broadcast.failed = {}


====
